---------------------------- MODULE Spec2Model ----------------------------
(***************************************************************************)
(* A model of diff-match-patch-unicode: the diff engine (diff_main and its *)
(* helpers), the cleanup passes, the patch engine, the segment codec and   *)
(* the Differ facade.                                                      *)
(*                                                                         *)
(* A JavaScript string is a sequence of UTF-16 code units (naturals).  A   *)
(* Diff is a record [op, text].  Arrays are sequences; the code's 0-based  *)
(* indices are kept, and At(s, i) reads element i.                         *)
(***************************************************************************)
EXTENDS Integers, Sequences, FiniteSets, TLC

VARIABLES
    Diff_Timeout,   \* DiffMatchPatch.Diff_Timeout (seconds, 0 = no limit)
    now,            \* the wall clock, Date.now()
    Differ_deadline, \* Differ.#deadline (NULL when not set)
    segmentCodec,   \* a SegmentCodec of the caller's (NULL before it is constructed)
    heap,           \* the Patch, Diff and Array objects of a patch_apply call, by reference
    call,           \* the last call made: its name and its arguments
    ret             \* what the last call returned

vars == <<Diff_Timeout, now, Differ_deadline, segmentCodec, heap, call, ret>>

-----------------------------------------------------------------------------
(* DiffOperation *)

DELETE == -1
INSERT == 1
EQUAL == 0

Diff(o, t) == [op |-> o, text |-> t]

-----------------------------------------------------------------------------
(* JavaScript strings and arrays *)

Min(a, b) == IF a < b THEN a ELSE b
Max(a, b) == IF a > b THEN a ELSE b

At(s, i) == s[i + 1]

\* The array whose elements are f[1], f[2], ...
Array(f) == <<>> \o f

\* String.prototype.substring(start, end): both clamped to [0, length], swapped
\* when start > end.
substring(s, start, end) ==
    LET a == Max(0, Min(start, Len(s)))
        b == Max(0, Min(end, Len(s)))
    IN  SubSeq(s, Min(a, b) + 1, Max(a, b))

\* String.prototype.substring(start)
substringFrom(s, start) == substring(s, start, Len(s))

\* Is pattern at position i (0-based) of s?
OccursAt(s, pattern, i) ==
    /\ i >= 0
    /\ i + Len(pattern) <= Len(s)
    /\ SubSeq(s, i + 1, i + Len(pattern)) = pattern

\* String.prototype.indexOf(pattern, from): -1 when absent.
indexOfFrom(s, pattern, from) ==
    LET f == Max(0, Min(from, Len(s)))
        hits == {i \in f..(Len(s) - Len(pattern)) : OccursAt(s, pattern, i)}
    IN  IF hits = {} THEN -1 ELSE CHOOSE i \in hits : \A j \in hits : i <= j

indexOf(s, pattern) == indexOfFrom(s, pattern, 0)

\* String.prototype.lastIndexOf(pattern, from): the last occurrence starting at
\* or before from.
lastIndexOfFrom(s, pattern, from) ==
    LET f == Max(0, Min(from, Len(s) - Len(pattern)))
        hits == {i \in 0..f : OccursAt(s, pattern, i)}
    IN  IF hits = {} THEN -1 ELSE CHOOSE i \in hits : \A j \in hits : i >= j

lastIndexOf(s, pattern) == lastIndexOfFrom(s, pattern, Len(s))

\* Array.prototype.splice(start, deleteCount, ...items)
Splice(s, start, deleteCount, items) ==
    SubSeq(s, 1, start) \o items \o SubSeq(s, start + deleteCount + 1, Len(s))

\* s with element i (0-based) replaced
SetAt(s, i, x) == [s EXCEPT ![i + 1] = x]

SetText(s, i, t) == [s EXCEPT ![i + 1].text = t]
SetOp(s, i, o) == [s EXCEPT ![i + 1].op = o]

-----------------------------------------------------------------------------
(* diff_commonPrefix, diff_commonSuffix: binary search *)

RECURSIVE commonPrefixLoop(_, _, _, _, _, _)
commonPrefixLoop(text1, text2, pointermin, pointermax, pointermid, pointerstart) ==
    IF pointermin < pointermid
    THEN IF substring(text1, pointerstart, pointermid)
             = substring(text2, pointerstart, pointermid)
         THEN commonPrefixLoop(text1, text2, pointermid, pointermax,
                  (pointermax - pointermid) \div 2 + pointermid, pointermid)
         ELSE commonPrefixLoop(text1, text2, pointermin, pointermid,
                  (pointermid - pointermin) \div 2 + pointermin, pointerstart)
    ELSE pointermid

diff_commonPrefix(text1, text2) ==
    IF text1 = <<>> \/ text2 = <<>> \/ At(text1, 0) # At(text2, 0)
    THEN 0
    ELSE LET m == Min(Len(text1), Len(text2))
         IN  commonPrefixLoop(text1, text2, 0, m, m, 0)

RECURSIVE commonSuffixLoop(_, _, _, _, _, _)
commonSuffixLoop(text1, text2, pointermin, pointermax, pointermid, pointerend) ==
    IF pointermin < pointermid
    THEN IF substring(text1, Len(text1) - pointermid, Len(text1) - pointerend)
             = substring(text2, Len(text2) - pointermid, Len(text2) - pointerend)
         THEN commonSuffixLoop(text1, text2, pointermid, pointermax,
                  (pointermax - pointermid) \div 2 + pointermid, pointermid)
         ELSE commonSuffixLoop(text1, text2, pointermin, pointermid,
                  (pointermid - pointermin) \div 2 + pointermin, pointerend)
    ELSE pointermid

diff_commonSuffix(text1, text2) ==
    IF text1 = <<>> \/ text2 = <<>>
       \/ At(text1, Len(text1) - 1) # At(text2, Len(text2) - 1)
    THEN 0
    ELSE LET m == Min(Len(text1), Len(text2))
         IN  commonSuffixLoop(text1, text2, 0, m, m, 0)

-----------------------------------------------------------------------------
(* diff_cleanupMerge *)

\* The procedures are written as the code runs them: the locals of a loop are
\* one record st, and each block of statements is an operator from the record
\* before it to the record after it.

\* "Factor out any common prefixies", commonlength being their common prefix.
MergePrefix(st, commonlength) ==
    LET before == st.pointer - st.count_delete - st.count_insert
    IN  IF commonlength = 0 THEN st
        ELSE IF before > 0 /\ At(st.diffs, before - 1).op = EQUAL
        THEN [st EXCEPT
                 !.diffs = SetText(@, before - 1,
                               At(@, before - 1).text
                                   \o substring(st.text_insert, 0, commonlength)),
                 !.text_insert = substringFrom(@, commonlength),
                 !.text_delete = substringFrom(@, commonlength)]
        ELSE [st EXCEPT
                 !.diffs = Splice(@, 0, 0,
                               <<Diff(EQUAL, substring(st.text_insert, 0, commonlength))>>),
                 !.pointer = @ + 1,
                 !.text_insert = substringFrom(@, commonlength),
                 !.text_delete = substringFrom(@, commonlength)]

\* "Factor out any common suffixies", commonlength being their common suffix.
MergeSuffix(st, commonlength) ==
    IF commonlength = 0 THEN st
    ELSE [st EXCEPT
             !.diffs = SetText(@, st.pointer,
                           substringFrom(st.text_insert, Len(st.text_insert) - commonlength)
                               \o At(@, st.pointer).text),
             !.text_insert = substring(@, 0, Len(@) - commonlength),
             !.text_delete = substring(@, 0, Len(@) - commonlength)]

MergeSuffixOf(st) == MergeSuffix(st, diff_commonSuffix(st.text_insert, st.text_delete))

MergeFactor(st) ==
    IF st.count_delete # 0 /\ st.count_insert # 0
    THEN MergeSuffixOf(MergePrefix(st, diff_commonPrefix(st.text_insert, st.text_delete)))
    ELSE st

\* "Delete the offending records and add the merged ones", then reset the
\* counters as the end of the Equal case does.
MergeReplace(st) ==
    LET n == st.count_delete + st.count_insert
        merged == (IF Len(st.text_delete) # 0
                   THEN <<Diff(DELETE, st.text_delete)>> ELSE <<>>)
                      \o (IF Len(st.text_insert) # 0
                          THEN <<Diff(INSERT, st.text_insert)>> ELSE <<>>)
    IN  [diffs |-> Splice(st.diffs, st.pointer - n, n, merged),
         pointer |-> st.pointer - n + Len(merged) + 1,
         count_delete |-> 0, count_insert |-> 0,
         text_delete |-> <<>>, text_insert |-> <<>>]

\* The Equal case of the first pass.
MergeEqual(st) ==
    IF st.count_delete + st.count_insert > 1
    THEN MergeReplace(MergeFactor(st))
    ELSE IF st.pointer # 0 /\ At(st.diffs, st.pointer - 1).op = EQUAL
    THEN \* Merge this equality with the previous one.
         [diffs |-> Splice(SetText(st.diffs, st.pointer - 1,
                               At(st.diffs, st.pointer - 1).text
                                   \o At(st.diffs, st.pointer).text),
                           st.pointer, 1, <<>>),
          pointer |-> st.pointer,
          count_delete |-> 0, count_insert |-> 0,
          text_delete |-> <<>>, text_insert |-> <<>>]
    ELSE [diffs |-> st.diffs, pointer |-> st.pointer + 1,
          count_delete |-> 0, count_insert |-> 0,
          text_delete |-> <<>>, text_insert |-> <<>>]

\* First pass of diff_cleanupMerge: the while loop over the records (the dummy
\* Equal entry is already pushed).
RECURSIVE MergeSweep(_)
MergeSweep(st) ==
    IF st.pointer >= Len(st.diffs) THEN st.diffs
    ELSE IF At(st.diffs, st.pointer).op = INSERT
    THEN MergeSweep([st EXCEPT !.count_insert = @ + 1,
                               !.text_insert = @ \o At(st.diffs, st.pointer).text,
                               !.pointer = @ + 1])
    ELSE IF At(st.diffs, st.pointer).op = DELETE
    THEN MergeSweep([st EXCEPT !.count_delete = @ + 1,
                               !.text_delete = @ \o At(st.diffs, st.pointer).text,
                               !.pointer = @ + 1])
    ELSE MergeSweep(MergeEqual(st))

\* "Remove the dummy entry at the end", if its text is still empty.
MergePop(diffs) ==
    IF At(diffs, Len(diffs) - 1).text = <<>>
    THEN SubSeq(diffs, 1, Len(diffs) - 1) ELSE diffs

\* "Shift the edit over the previous equality."
MergeShiftLeft(diffs, pointer) ==
    Splice([diffs EXCEPT
               ![pointer + 1].text =
                   diffs[pointer].text
                       \o substring(@, 0, Len(@) - Len(diffs[pointer].text)),
               ![pointer + 2].text = diffs[pointer].text \o @],
           pointer - 1, 1, <<>>)

\* "Shift the edit over the next equality."
MergeShiftRight(diffs, pointer) ==
    Splice([diffs EXCEPT
               ![pointer].text = @ \o diffs[pointer + 2].text,
               ![pointer + 1].text =
                   substringFrom(@, Len(diffs[pointer + 2].text))
                       \o diffs[pointer + 2].text],
           pointer + 1, 1, <<>>)

\* Second pass of diff_cleanupMerge: shift a single edit surrounded by
\* equalities over one of them.  Returns the records and whether any shifted.
RECURSIVE MergeShift(_, _, _)
MergeShift(diffs, pointer, changes) ==
    IF pointer >= Len(diffs) - 1 THEN [diffs |-> diffs, changes |-> changes]
    ELSE IF At(diffs, pointer - 1).op = EQUAL /\ At(diffs, pointer + 1).op = EQUAL
    THEN IF substringFrom(At(diffs, pointer).text,
                Len(At(diffs, pointer).text) - Len(At(diffs, pointer - 1).text))
              = At(diffs, pointer - 1).text
         THEN MergeShift(MergeShiftLeft(diffs, pointer), pointer + 1, TRUE)
         ELSE IF substring(At(diffs, pointer).text, 0, Len(At(diffs, pointer + 1).text))
                   = At(diffs, pointer + 1).text
         THEN MergeShift(MergeShiftRight(diffs, pointer), pointer + 1, TRUE)
         ELSE MergeShift(diffs, pointer + 1, changes)
    ELSE MergeShift(diffs, pointer + 1, changes)

RECURSIVE diff_cleanupMerge(_)

\* "If shifts were made, the diff needs reordering and another shift sweep."
MergeAgain(shifted) ==
    IF shifted.changes THEN diff_cleanupMerge(shifted.diffs) ELSE shifted.diffs

diff_cleanupMerge(diffs) ==
    MergeAgain(MergeShift(MergePop(MergeSweep(
        [diffs |-> Append(diffs, Diff(EQUAL, <<>>)), pointer |-> 0,
         count_delete |-> 0, count_insert |-> 0,
         text_delete |-> <<>>, text_insert |-> <<>>])), 1, FALSE))

-----------------------------------------------------------------------------
(* diff_cleanupSemanticLossless *)

\* String.prototype.charAt(i): a string of one unit, or '' out of range.
charAt(s, i) == IF i >= 0 /\ i < Len(s) THEN <<s[i + 1]>> ELSE <<>>

\* /[^a-zA-Z0-9]/
NON_ALPHANUMERIC_REGEX_(c) == c \notin (48..57) \cup (65..90) \cup (97..122)
\* /\s/
WHITE_SPACE_REGEX_(c) ==
    c \in (9..13) \cup {32, 160, 5760, 8232, 8233, 8239, 8287, 12288, 65279}
          \cup (8192..8202)
\* /[\r\n]/
LINE_BREAK_REGEX_(c) == c \in {10, 13}
\* /\n\r?\n$/
BLANKLINE_END_REGEX_(s) ==
    \/ (Len(s) >= 2 /\ SubSeq(s, Len(s) - 1, Len(s)) = <<10, 10>>)
    \/ (Len(s) >= 3 /\ SubSeq(s, Len(s) - 2, Len(s)) = <<10, 13, 10>>)
\* /^\r?\n\r?\n/
BLANKLINE_START_REGEX_(s) ==
    \E p \in {<<10, 10>>, <<13, 10, 10>>, <<10, 13, 10>>, <<13, 10, 13, 10>>} :
        Len(s) >= Len(p) /\ SubSeq(s, 1, Len(p)) = p

diff_cleanupSemanticScore_(one, two) ==
    IF one = <<>> \/ two = <<>> THEN 6
    ELSE LET char1 == one[Len(one)]
             char2 == two[1]
             nonAlphaNumeric1 == NON_ALPHANUMERIC_REGEX_(char1)
             nonAlphaNumeric2 == NON_ALPHANUMERIC_REGEX_(char2)
             whitespace1 == nonAlphaNumeric1 /\ WHITE_SPACE_REGEX_(char1)
             whitespace2 == nonAlphaNumeric2 /\ WHITE_SPACE_REGEX_(char2)
             lineBreak1 == whitespace1 /\ LINE_BREAK_REGEX_(char1)
             lineBreak2 == whitespace2 /\ LINE_BREAK_REGEX_(char2)
             blankLine1 == lineBreak1 /\ BLANKLINE_END_REGEX_(one)
             blankLine2 == lineBreak2 /\ BLANKLINE_START_REGEX_(two)
         IN  IF blankLine1 \/ blankLine2 THEN 5
             ELSE IF lineBreak1 \/ lineBreak2 THEN 4
             ELSE IF nonAlphaNumeric1 /\ ~whitespace1 /\ whitespace2 THEN 3
             ELSE IF whitespace1 \/ whitespace2 THEN 2
             ELSE IF nonAlphaNumeric1 \/ nonAlphaNumeric2 THEN 1
             ELSE 0

\* The locals of the inner loop are one record w: equality1, edit, equality2
\* and the best placement so far.

\* "First, shift the edit as far left as possible."
LosslessLeft(w, commonOffset) ==
    IF commonOffset # 0
    THEN [w EXCEPT
             !.equality1 = substring(@, 0, Len(@) - commonOffset),
             !.edit = substringFrom(@, Len(@) - commonOffset)
                          \o substring(@, 0, Len(@) - commonOffset),
             !.equality2 = substringFrom(w.edit, Len(w.edit) - commonOffset) \o @]
    ELSE w

\* Keep the placement in w as the best one when it scores at least bestScore.
LosslessKeep(w, score) ==
    IF score >= w.bestScore
    THEN [w EXCEPT !.bestScore = score, !.bestEquality1 = w.equality1,
                   !.bestEdit = w.edit, !.bestEquality2 = w.equality2]
    ELSE w

LosslessScored(w) ==
    LosslessKeep(w, diff_cleanupSemanticScore_(w.equality1, w.edit)
                        + diff_cleanupSemanticScore_(w.edit, w.equality2))

\* The placement before any step: the code sets best* and bestScore directly.
LosslessFirst(w) ==
    [w EXCEPT !.bestScore = diff_cleanupSemanticScore_(w.equality1, w.edit)
                                + diff_cleanupSemanticScore_(w.edit, w.equality2),
              !.bestEquality1 = w.equality1, !.bestEdit = w.edit,
              !.bestEquality2 = w.equality2]

\* The body of the inner while loop: step the edit right by one unit.
LosslessStep(w) ==
    [w EXCEPT !.equality1 = @ \o charAt(w.edit, 0),
              !.edit = substringFrom(@, 1) \o charAt(w.equality2, 0),
              !.equality2 = substringFrom(@, 1)]

\* The code's condition edit.charAt(0) === equality2.charAt(0) holds for ever
\* when edit and equality2 are both empty.
LosslessHangs(w) == w.edit = <<>> /\ w.equality2 = <<>>

\* The inner while loop; it is not entered where the code would never leave it.
RECURSIVE LosslessWalk(_)
LosslessWalk(w) ==
    IF ~LosslessHangs(w) /\ charAt(w.edit, 0) = charAt(w.equality2, 0)
    THEN LosslessWalk(LosslessScored(LosslessStep(w)))
    ELSE w

\* The best placement of the edit at pointer, which sits between two equalities.
LosslessBest(diffs, pointer) ==
    LosslessWalk(LosslessFirst(LosslessLeft(
        [equality1 |-> At(diffs, pointer - 1).text,
         edit |-> At(diffs, pointer).text,
         equality2 |-> At(diffs, pointer + 1).text,
         bestEquality1 |-> <<>>, bestEdit |-> <<>>, bestEquality2 |-> <<>>,
         bestScore |-> 0],
        diff_commonSuffix(At(diffs, pointer - 1).text, At(diffs, pointer).text))))

\* "We have an improvement, save it back to the diff": s is [diffs, pointer].
LosslessSave1(s, w) ==
    IF w.bestEquality1 # <<>>
    THEN [s EXCEPT !.diffs = SetText(@, s.pointer - 1, w.bestEquality1)]
    ELSE [diffs |-> Splice(s.diffs, s.pointer - 1, 1, <<>>), pointer |-> s.pointer - 1]

LosslessSave2(s, w) == [s EXCEPT !.diffs = SetText(@, s.pointer, w.bestEdit)]

LosslessSave3(s, w) ==
    IF w.bestEquality2 # <<>>
    THEN [s EXCEPT !.diffs = SetText(@, s.pointer + 1, w.bestEquality2)]
    ELSE [diffs |-> Splice(s.diffs, s.pointer + 1, 1, <<>>), pointer |-> s.pointer - 1]

LosslessSave(s, w) ==
    IF At(s.diffs, s.pointer - 1).text # w.bestEquality1
    THEN LosslessSave3(LosslessSave2(LosslessSave1(s, w), w), w)
    ELSE s

LosslessNext(s) == [s EXCEPT !.pointer = @ + 1]

RECURSIVE LosslessSweep(_)
LosslessSweep(s) ==
    IF s.pointer >= Len(s.diffs) - 1 THEN s.diffs
    ELSE IF /\ At(s.diffs, s.pointer - 1).op = EQUAL
            /\ At(s.diffs, s.pointer + 1).op = EQUAL
    THEN LosslessSweep(LosslessNext(LosslessSave(s, LosslessBest(s.diffs, s.pointer))))
    ELSE LosslessSweep(LosslessNext(s))

diff_cleanupSemanticLossless(diffs) == LosslessSweep([diffs |-> diffs, pointer |-> 1])

-----------------------------------------------------------------------------
(* diff_commonOverlap_ *)

RECURSIVE commonOverlapLoop(_, _, _, _, _)
commonOverlapLoop(text1, text2, text_length, best, length) ==
    LET pattern == substringFrom(text1, text_length - length)
        found == indexOf(text2, pattern)
    IN  IF found = -1 THEN best
        ELSE LET length1 == length + found
             IN  IF found = 0 \/ substringFrom(text1, text_length - length1)
                                   = substring(text2, 0, length1)
                 THEN commonOverlapLoop(text1, text2, text_length, length1, length1 + 1)
                 ELSE commonOverlapLoop(text1, text2, text_length, best, length1)

diff_commonOverlap_(text1, text2) ==
    LET text1_length == Len(text1)
        text2_length == Len(text2)
        t1 == IF text1_length > text2_length
              THEN substringFrom(text1, text1_length - text2_length) ELSE text1
        t2 == IF text1_length < text2_length
              THEN substring(text2, 0, text1_length) ELSE text2
        text_length == Min(text1_length, text2_length)
    IN  IF text1_length = 0 \/ text2_length = 0 THEN 0
        ELSE IF t1 = t2 THEN text_length
        ELSE commonOverlapLoop(t1, t2, text_length, 0, 1)

-----------------------------------------------------------------------------
(* diff_cleanupSemantic *)

\* A JavaScript array used with its own length variable: a function from the
\* indices written so far (the code may write index -1).
Put(a, i, x) == (i :> x) @@ a

\* A nullable string: <<>> is null, <<s>> is the string s.
NULL == <<>>
Some(s) == <<s>>
\* JavaScript truthiness of a nullable string: neither null nor ''.
Truthy(n) == n # NULL /\ n[1] # <<>>

\* First loop of diff_cleanupSemantic: eliminate the equalities that are no
\* longer than the edits on both sides of them.
RECURSIVE SemanticSweep(_)
SemanticSweep(st) ==
    IF st.pointer >= Len(st.diffs) THEN st
    ELSE LET d == At(st.diffs, st.pointer)
         IN  IF d.op = EQUAL
             THEN SemanticSweep([st EXCEPT
                      !.equalities = Put(@, st.equalitiesLength, st.pointer),
                      !.equalitiesLength = @ + 1,
                      !.length_insertions1 = st.length_insertions2,
                      !.length_deletions1 = st.length_deletions2,
                      !.length_insertions2 = 0,
                      !.length_deletions2 = 0,
                      !.lastEquality = Some(d.text),
                      !.pointer = @ + 1])
             ELSE LET li2 == IF d.op = INSERT THEN st.length_insertions2 + Len(d.text)
                             ELSE st.length_insertions2
                      ld2 == IF d.op = INSERT THEN st.length_deletions2
                             ELSE st.length_deletions2 + Len(d.text)
                  IN  IF /\ Truthy(st.lastEquality)
                         /\ Len(st.lastEquality[1])
                              <= Max(st.length_insertions1, st.length_deletions1)
                         /\ Len(st.lastEquality[1]) <= Max(li2, ld2)
                      THEN LET top == st.equalities[st.equalitiesLength - 1]
                               diffs1 == Splice(st.diffs, top, 0,
                                             <<Diff(DELETE, st.lastEquality[1])>>)
                               diffs2 == SetOp(diffs1, top + 1, INSERT)
                               eqLen == st.equalitiesLength - 2
                           IN  SemanticSweep([st EXCEPT
                                   !.diffs = diffs2,
                                   !.equalitiesLength = eqLen,
                                   !.pointer = (IF eqLen > 0 THEN st.equalities[eqLen - 1]
                                                ELSE -1) + 1,
                                   !.length_insertions1 = 0,
                                   !.length_deletions1 = 0,
                                   !.length_insertions2 = 0,
                                   !.length_deletions2 = 0,
                                   !.lastEquality = NULL,
                                   !.changes = TRUE])
                      ELSE SemanticSweep([st EXCEPT
                               !.length_insertions2 = li2,
                               !.length_deletions2 = ld2,
                               !.pointer = @ + 1])

\* Last loop of diff_cleanupSemantic: carve the overlap of a deletion and the
\* insertion that follows it out into an equality.

\* The overlap carved out, the insertion left whole.
SemanticOverlap1Untrimmed(diffs, pointer, overlap_length1) ==
    Splice(diffs, pointer - 1, 2,
        << Diff(DELETE, substring(At(diffs, pointer - 1).text, 0,
                            Len(At(diffs, pointer - 1).text) - overlap_length1)),
           Diff(EQUAL, substring(At(diffs, pointer).text, 0, overlap_length1)),
           At(diffs, pointer) >>)

\* "Overlap found.  Insert an equality and trim the surrounding edits."
SemanticOverlap1(diffs, pointer, overlap_length1) ==
    Splice(diffs, pointer - 1, 2,
        << Diff(DELETE, substring(At(diffs, pointer - 1).text, 0,
                            Len(At(diffs, pointer - 1).text) - overlap_length1)),
           Diff(EQUAL, substring(At(diffs, pointer).text, 0, overlap_length1)),
           Diff(At(diffs, pointer).op,
                substringFrom(At(diffs, pointer).text, overlap_length1)) >>)

\* "Reverse overlap found.  Insert an equality and swap and trim the
\* surrounding edits."
SemanticOverlap2(diffs, pointer, overlap_length2) ==
    Splice(diffs, pointer - 1, 2,
        << Diff(INSERT, substring(At(diffs, pointer).text, 0,
                            Len(At(diffs, pointer).text) - overlap_length2)),
           Diff(EQUAL, substring(At(diffs, pointer - 1).text, 0, overlap_length2)),
           Diff(DELETE, substringFrom(At(diffs, pointer - 1).text, overlap_length2)) >>)

\* A deletion at pointer - 1 followed by an insertion at pointer, with their
\* two overlaps: the records and the pointer after the if statement.
SemanticOverlap(diffs, pointer, overlap_length1, overlap_length2) ==
    IF overlap_length1 >= overlap_length2
    THEN IF \/ 2 * overlap_length1 >= Len(At(diffs, pointer - 1).text)
            \/ 2 * overlap_length1 >= Len(At(diffs, pointer).text)
         THEN [diffs |-> SemanticOverlap1(diffs, pointer, overlap_length1),
               pointer |-> pointer + 2]
         ELSE [diffs |-> diffs, pointer |-> pointer + 1]
    ELSE IF \/ 2 * overlap_length2 >= Len(At(diffs, pointer - 1).text)
            \/ 2 * overlap_length2 >= Len(At(diffs, pointer).text)
         THEN [diffs |-> SemanticOverlap2(diffs, pointer, overlap_length2),
               pointer |-> pointer + 2]
         ELSE [diffs |-> diffs, pointer |-> pointer + 1]

\* Last loop of diff_cleanupSemantic: carve the overlap of a deletion and the
\* insertion that follows it out into an equality.  s is [diffs, pointer].
RECURSIVE SemanticOverlaps(_)
SemanticOverlaps(s) ==
    IF s.pointer >= Len(s.diffs) THEN s.diffs
    ELSE IF At(s.diffs, s.pointer - 1).op = DELETE /\ At(s.diffs, s.pointer).op = INSERT
    THEN SemanticOverlaps(LosslessNext(
             SemanticOverlap(s.diffs, s.pointer,
                 diff_commonOverlap_(At(s.diffs, s.pointer - 1).text,
                                     At(s.diffs, s.pointer).text),
                 diff_commonOverlap_(At(s.diffs, s.pointer).text,
                                     At(s.diffs, s.pointer - 1).text))))
    ELSE SemanticOverlaps(LosslessNext(s))

\* "Normalize the diff": merge when the first loop changed anything.
SemanticMerge(st) == IF st.changes THEN diff_cleanupMerge(st.diffs) ELSE st.diffs

diff_cleanupSemantic(diffs) ==
    SemanticOverlaps(
        [diffs |-> diff_cleanupSemanticLossless(SemanticMerge(SemanticSweep(
                       [diffs |-> diffs, pointer |-> 0,
                        equalities |-> <<>>, equalitiesLength |-> 0,
                        lastEquality |-> NULL, changes |-> FALSE,
                        length_insertions1 |-> 0, length_deletions1 |-> 0,
                        length_insertions2 |-> 0, length_deletions2 |-> 0]))),
         pointer |-> 1])

\* ---------------------------------------------------------------------------
\* diff_cleanupEfficiency
\* ---------------------------------------------------------------------------

\* Cost of an empty edit operation in terms of edit characters.
Diff_EditCost == 4

\* Unary plus on a boolean.
Num(b) == IF b THEN 1 ELSE 0

\* The loop of diff_cleanupEfficiency over the record st of its locals.
RECURSIVE EfficiencySweep(_)
EfficiencySweep(st) ==
    IF st.pointer >= Len(st.diffs) THEN st
    ELSE LET d == At(st.diffs, st.pointer)
         IN  IF d.op = EQUAL
             THEN IF Len(d.text) < Diff_EditCost /\ (st.post_ins \/ st.post_del)
                  THEN EfficiencySweep([st EXCEPT
                           !.equalities = Put(@, st.equalitiesLength, st.pointer),
                           !.equalitiesLength = @ + 1,
                           !.pre_ins = st.post_ins,
                           !.pre_del = st.post_del,
                           !.lastEquality = Some(d.text),
                           !.post_ins = FALSE,
                           !.post_del = FALSE,
                           !.pointer = @ + 1])
                  ELSE EfficiencySweep([st EXCEPT
                           !.equalitiesLength = 0,
                           !.lastEquality = NULL,
                           !.post_ins = FALSE,
                           !.post_del = FALSE,
                           !.pointer = @ + 1])
             ELSE LET post_del == (d.op = DELETE) \/ st.post_del
                      post_ins == (d.op # DELETE) \/ st.post_ins
                  IN  IF /\ Truthy(st.lastEquality)
                         /\ \/ st.pre_ins /\ st.pre_del /\ post_ins /\ post_del
                            \/ /\ 2 * Len(st.lastEquality[1]) < Diff_EditCost
                               /\ Num(st.pre_ins) + Num(st.pre_del)
                                    + Num(post_ins) + Num(post_del) = 3
                      THEN LET top == st.equalities[st.equalitiesLength - 1]
                               diffs1 == Splice(st.diffs, top, 0,
                                             <<Diff(DELETE, st.lastEquality[1])>>)
                               diffs2 == SetOp(diffs1, top + 1, INSERT)
                               eqLen == st.equalitiesLength - 2
                           IN  IF st.pre_ins /\ st.pre_del
                               THEN EfficiencySweep([st EXCEPT
                                        !.diffs = diffs2,
                                        !.equalitiesLength = 0,
                                        !.lastEquality = NULL,
                                        !.post_ins = TRUE,
                                        !.post_del = TRUE,
                                        !.changes = TRUE,
                                        !.pointer = @ + 1])
                               ELSE EfficiencySweep([st EXCEPT
                                        !.diffs = diffs2,
                                        !.equalitiesLength = eqLen,
                                        !.lastEquality = NULL,
                                        !.post_ins = FALSE,
                                        !.post_del = FALSE,
                                        !.changes = TRUE,
                                        !.pointer = (IF eqLen > 0
                                                     THEN st.equalities[eqLen - 1]
                                                     ELSE -1) + 1])
                      ELSE EfficiencySweep([st EXCEPT
                               !.post_ins = post_ins,
                               !.post_del = post_del,
                               !.pointer = @ + 1])

diff_cleanupEfficiency(diffs) ==
    SemanticMerge(EfficiencySweep(
        [diffs |-> diffs, pointer |-> 0,
         equalities |-> <<>>, equalitiesLength |-> 0,
         lastEquality |-> NULL, changes |-> FALSE,
         pre_ins |-> FALSE, pre_del |-> FALSE,
         post_ins |-> FALSE, post_del |-> FALSE]))

\* ---------------------------------------------------------------------------
\* diff_halfMatch_
\* ---------------------------------------------------------------------------

CeilDiv(a, b) == (a + b - 1) \div b

\* The body of the while loop of diff_halfMatchI_ with the seed found at j:
\* best is the five best_* strings in the order they are returned in.
halfMatchIBetter(longtext, shorttext, i, j, best, prefixLength, suffixLength) ==
    IF Len(best[5]) < suffixLength + prefixLength
    THEN << substring(longtext, 0, i - suffixLength),
            substringFrom(longtext, i + prefixLength),
            substring(shorttext, 0, j - suffixLength),
            substringFrom(shorttext, j + prefixLength),
            substring(shorttext, j - suffixLength, j)
                \o substring(shorttext, j, j + prefixLength) >>
    ELSE best

RECURSIVE halfMatchILoop(_, _, _, _, _, _)

halfMatchIFound(longtext, shorttext, i, seed, j, best) ==
    IF j = -1 THEN best
    ELSE halfMatchILoop(longtext, shorttext, i, seed, j,
             halfMatchIBetter(longtext, shorttext, i, j, best,
                 diff_commonPrefix(substringFrom(longtext, i), substringFrom(shorttext, j)),
                 diff_commonSuffix(substring(longtext, 0, i), substring(shorttext, 0, j))))

\* The while loop of diff_halfMatchI_, j being where the seed was last found.
halfMatchILoop(longtext, shorttext, i, seed, j, best) ==
    halfMatchIFound(longtext, shorttext, i, seed,
                    indexOfFrom(shorttext, seed, j + 1), best)

halfMatchIResult(longtext, best) ==
    IF Len(best[5]) * 2 >= Len(longtext) THEN best ELSE NULL

\* Null (NULL) or <<longtext_a, longtext_b, shorttext_a, shorttext_b, common>>.
diff_halfMatchI_(longtext, shorttext, i) ==
    halfMatchIResult(longtext,
        halfMatchILoop(longtext, shorttext, i,
            substring(longtext, i, i + (Len(longtext) \div 4)), -1,
            << <<>>, <<>>, <<>>, <<>>, <<>> >>))

\* The choice between the half matches of the second and the third quarter.
halfMatchSelect(hm1, hm2) ==
    IF hm1 # NULL /\ hm2 = NULL THEN hm1
    ELSE IF hm2 # NULL /\ hm1 = NULL THEN hm2
    ELSE IF hm1 # NULL /\ hm2 # NULL
    THEN (IF Len(hm1[5]) > Len(hm2[5]) THEN hm1 ELSE hm2)
    ELSE NULL

\* "A half-match was found, sort out the return data."
halfMatchOrder(text1, text2, hm) ==
    IF hm = NULL THEN NULL
    ELSE IF Len(text1) > Len(text2) THEN <<hm[1], hm[2], hm[3], hm[4], hm[5]>>
    ELSE <<hm[3], hm[4], hm[1], hm[2], hm[5]>>

halfMatchOf(text1, text2, longtext, shorttext) ==
    IF Len(longtext) < 4 \/ Len(shorttext) * 2 < Len(longtext) THEN NULL
    ELSE halfMatchOrder(text1, text2,
             halfMatchSelect(
                 diff_halfMatchI_(longtext, shorttext, CeilDiv(Len(longtext), 4)),
                 diff_halfMatchI_(longtext, shorttext, CeilDiv(Len(longtext), 2))))

\* The half match looked for whatever Diff_Timeout is.
halfMatchUntimed(text1, text2) ==
    halfMatchOf(text1, text2,
        IF Len(text1) > Len(text2) THEN text1 ELSE text2,
        IF Len(text1) > Len(text2) THEN text2 ELSE text1)

\* Null (NULL) or <<text1_a, text1_b, text2_a, text2_b, mid_common>>.
diff_halfMatch_(text1, text2) ==
    IF Diff_Timeout <= 0 THEN NULL
    ELSE halfMatchOf(text1, text2,
             IF Len(text1) > Len(text2) THEN text1 ELSE text2,
             IF Len(text1) > Len(text2) THEN text2 ELSE text1)

\* ---------------------------------------------------------------------------
\* diff_linesToChars_ / diff_charsToLines_
\* ---------------------------------------------------------------------------

MAX_SEGMENTS == 65535
MAX_SEGMENTS_2_3 == 43690

\* String.fromCharCode of one number: the code unit is the number mod 2^16.
fromCharCode(n) == <<n % 65536>>

\* The closure diff_linesToCharsMunge_ works on a record st: its locals chars,
\* lineStart, lineEnd and the two collections of the enclosing function,
\* lineArray (JavaScript index k is lineArray[k + 1]) and lineHash (a function
\* from lines to indices).

\* A line that is not in lineHash yet, ending at lineEnd.
MungeNew(st, lineEnd, line) ==
    [st EXCEPT !.chars = @ \o fromCharCode(Len(st.lineArray)),
               !.lineHash = Put(@, line, Len(st.lineArray)),
               !.lineArray = Append(@, line),
               !.lineStart = lineEnd + 1,
               !.lineEnd = lineEnd]

MungeLine(text, maxLines, st, lineEnd, line) ==
    IF line \in DOMAIN st.lineHash
    THEN [st EXCEPT !.chars = @ \o fromCharCode(st.lineHash[line]),
                    !.lineStart = lineEnd + 1,
                    !.lineEnd = lineEnd]
    ELSE IF Len(st.lineArray) = maxLines
    THEN \* "Bail out": the rest of the text is one line.
         MungeNew(st, Len(text), substringFrom(text, st.lineStart))
    ELSE MungeNew(st, lineEnd, line)

MungeLineEnd(text, maxLines, st, lineEnd) ==
    MungeLine(text, maxLines, st, lineEnd, substring(text, st.lineStart, lineEnd + 1))

MungeFound(text, maxLines, st, found) ==
    MungeLineEnd(text, maxLines, st, IF found = -1 THEN Len(text) - 1 ELSE found)

RECURSIVE diff_linesToCharsMunge_(_, _, _)
diff_linesToCharsMunge_(text, maxLines, st) ==
    IF ~(st.lineEnd < Len(text) - 1) THEN st
    ELSE diff_linesToCharsMunge_(text, maxLines,
             MungeFound(text, maxLines, st, indexOfFrom(text, <<10>>, st.lineStart)))

linesToCharsResult(chars1, st) ==
    [chars1 |-> chars1, chars2 |-> st.chars, lineArray |-> st.lineArray]

linesToCharsSecond(text2, st) ==
    linesToCharsResult(st.chars,
        diff_linesToCharsMunge_(text2, MAX_SEGMENTS,
            [st EXCEPT !.chars = <<>>, !.lineStart = 0, !.lineEnd = -1]))

diff_linesToChars_(text1, text2) ==
    linesToCharsSecond(text2,
        diff_linesToCharsMunge_(text1, MAX_SEGMENTS_2_3,
            [chars |-> <<>>, lineStart |-> 0, lineEnd |-> -1,
             lineArray |-> << <<>> >>, lineHash |-> <<>>]))

\* text.join('') of the lines the code units of chars stand for.
RECURSIVE charsToLinesJoin(_, _, _)
charsToLinesJoin(chars, lineArray, j) ==
    IF j >= Len(chars) THEN <<>>
    ELSE lineArray[At(chars, j) + 1] \o charsToLinesJoin(chars, lineArray, j + 1)

diff_charsToLines_(diffs, lineArray) ==
    [i \in 1..Len(diffs) |->
        Diff(diffs[i].op, charsToLinesJoin(diffs[i].text, lineArray, 0))]

\* ---------------------------------------------------------------------------
\* The clock
\* ---------------------------------------------------------------------------

\* Date.now() is read from a clock record c: its value is c.now for the next
\* c.left reads and c.next from then on (c.left = -1: the value stays c.now).
\* A monotonic clock compared with one deadline changes its answer at most
\* once, so one jump covers the outcomes of every sequence of readings.
\* c.late records that the deadline check of diff_bisect_ has ended a
\* bisection.
ClockRead(c) ==
    IF c.left = 0 THEN [c EXCEPT !.now = c.next, !.left = -1]
    ELSE IF c.left > 0 THEN [c EXCEPT !.left = @ - 1]
    ELSE c

\* Number.MAX_VALUE: above every reading of the clock.
MAX_VALUE == 2147483647

\* ---------------------------------------------------------------------------
\* diff_bisect_
\* ---------------------------------------------------------------------------

\* Every operation that may read the clock takes the clock record c as its
\* last argument and returns [diffs, c]: the result and the clock afterwards.
RECURSIVE diff_main(_, _, _, _, _)

\* The diagonal-following while loops of diff_bisect_.
RECURSIVE bisectSnake1(_, _, _, _)
bisectSnake1(text1, text2, x1, y1) ==
    IF x1 < Len(text1) /\ y1 < Len(text2) /\ charAt(text1, x1) = charAt(text2, y1)
    THEN bisectSnake1(text1, text2, x1 + 1, y1 + 1)
    ELSE x1

RECURSIVE bisectSnake2(_, _, _, _)
bisectSnake2(text1, text2, x2, y2) ==
    IF /\ x2 < Len(text1) /\ y2 < Len(text2)
       /\ charAt(text1, Len(text1) - x2 - 1) = charAt(text2, Len(text2) - y2 - 1)
    THEN bisectSnake2(text1, text2, x2 + 1, y2 + 1)
    ELSE x2

\* The constants of one call of diff_bisect_.
bisectFrameOf(text1, text2, max_d) ==
    [text1 |-> text1, text2 |-> text2,
     text1_length |-> Len(text1), text2_length |-> Len(text2),
     max_d |-> max_d, v_offset |-> max_d, v_length |-> 2 * max_d,
     delta |-> Len(text1) - Len(text2),
     front |-> (Len(text1) - Len(text2)) % 2 # 0]

bisectFrame(text1, text2) ==
    bisectFrameOf(text1, text2, CeilDiv(Len(text1) + Len(text2), 2))

\* The x a path starts from on diagonal k, v being v1 or v2.
bisectStart(d, k, v, k_offset) ==
    IF k = -d \/ (k # d /\ v[k_offset - 1] < v[k_offset + 1])
    THEN v[k_offset + 1]
    ELSE v[k_offset - 1] + 1

\* "Walk the front path one step": the k1 loop from k1 on.  st holds v1, v2,
\* k1start, k1end, k2start, k2end; hit is NULL or the <<x1, y1>> of the overlap.
RECURSIVE bisectFront(_, _, _, _)

\* The body of the k1 loop once x1 has followed its diagonal and is in v1.
bisectFrontAt(b, d, k1, st, x1, k2_offset) ==
    IF x1 > b.text1_length
    THEN bisectFront(b, d, k1 + 2, [st EXCEPT !.k1end = @ + 2])
    ELSE IF x1 - k1 > b.text2_length
    THEN bisectFront(b, d, k1 + 2, [st EXCEPT !.k1start = @ + 2])
    ELSE IF /\ b.front
            /\ k2_offset >= 0 /\ k2_offset < b.v_length
            /\ st.v2[k2_offset] # -1
            /\ x1 >= b.text1_length - st.v2[k2_offset]
    THEN [st |-> st, hit |-> <<x1, x1 - k1>>]
    ELSE bisectFront(b, d, k1 + 2, st)

bisectFrontSet(b, d, k1, st, x1) ==
    bisectFrontAt(b, d, k1, [st EXCEPT !.v1 = Put(@, b.v_offset + k1, x1)], x1,
                  b.v_offset + b.delta - k1)

bisectFrontFrom(b, d, k1, st, x1) ==
    bisectFrontSet(b, d, k1, st, bisectSnake1(b.text1, b.text2, x1, x1 - k1))

bisectFront(b, d, k1, st) ==
    IF ~(k1 <= d - st.k1end) THEN [st |-> st, hit |-> NULL]
    ELSE bisectFrontFrom(b, d, k1, st, bisectStart(d, k1, st.v1, b.v_offset + k1))

\* "Walk the reverse path one step": the k2 loop from k2 on.
RECURSIVE bisectReverse(_, _, _, _)

bisectReverseAt(b, d, k2, st, x2, k1_offset) ==
    IF x2 > b.text1_length
    THEN bisectReverse(b, d, k2 + 2, [st EXCEPT !.k2end = @ + 2])
    ELSE IF x2 - k2 > b.text2_length
    THEN bisectReverse(b, d, k2 + 2, [st EXCEPT !.k2start = @ + 2])
    ELSE IF /\ ~b.front
            /\ k1_offset >= 0 /\ k1_offset < b.v_length
            /\ st.v1[k1_offset] # -1
            /\ st.v1[k1_offset] >= b.text1_length - x2
    THEN [st |-> st,
          hit |-> <<st.v1[k1_offset], b.v_offset + st.v1[k1_offset] - k1_offset>>]
    ELSE bisectReverse(b, d, k2 + 2, st)

bisectReverseSet(b, d, k2, st, x2) ==
    bisectReverseAt(b, d, k2, [st EXCEPT !.v2 = Put(@, b.v_offset + k2, x2)], x2,
                    b.v_offset + b.delta - k2)

bisectReverseFrom(b, d, k2, st, x2) ==
    bisectReverseSet(b, d, k2, st, bisectSnake2(b.text1, b.text2, x2, x2 - k2))

bisectReverse(b, d, k2, st) ==
    IF ~(k2 <= d - st.k2end) THEN [st |-> st, hit |-> NULL]
    ELSE bisectReverseFrom(b, d, k2, st, bisectStart(d, k2, st.v2, b.v_offset + k2))

\* The d loop of diff_bisect_ from d on, reading the clock c before each step.
RECURSIVE bisectLoop(_, _, _, _, _)

bisectAfterReverse(b, d, deadline, c, r) ==
    IF r.hit # NULL THEN [hit |-> r.hit, c |-> c]
    ELSE bisectLoop(b, d + 1, r.st, deadline, c)

bisectAfterFront(b, d, deadline, c, f) ==
    IF f.hit # NULL THEN [hit |-> f.hit, c |-> c]
    ELSE bisectAfterReverse(b, d, deadline, c,
                            bisectReverse(b, d, -d + f.st.k2start, f.st))

\* One round of the d loop after its reading of the clock, c.
bisectStep(b, d, st, deadline, c) ==
    IF c.now > deadline THEN [hit |-> NULL, c |-> [c EXCEPT !.late = TRUE]]
    ELSE bisectAfterFront(b, d, deadline, c, bisectFront(b, d, -d + st.k1start, st))

bisectLoop(b, d, st, deadline, c) ==
    IF ~(d < b.max_d) THEN [hit |-> NULL, c |-> c]
    ELSE bisectStep(b, d, st, deadline, ClockRead(c))

\* The concatenation of two results, the clock being the one after the second.
ConcatDiffs(a, bb) == [diffs |-> a.diffs \o bb.diffs, c |-> bb.c]

bisectSplitSecond(text1b, text2b, deadline, a) ==
    ConcatDiffs(a, diff_main(text1b, text2b, Some(FALSE), Some(deadline), a.c))

\* A split that cuts text2 where text1 is cut: what C1 must tell apart from
\* diff_bisectSplit_.
bisectSplitAtX(text1, text2, x, y, deadline, c) ==
    bisectSplitSecond(substringFrom(text1, x), substringFrom(text2, x), deadline,
        diff_main(substring(text1, 0, x), substring(text2, 0, y),
                  Some(FALSE), Some(deadline), c))

diff_bisectSplit_(text1, text2, x, y, deadline, c) ==
    bisectSplitSecond(substringFrom(text1, x), substringFrom(text2, y), deadline,
        diff_main(substring(text1, 0, x), substring(text2, 0, y),
                  Some(FALSE), Some(deadline), c))

\* v1 and v2 are arrays of v_length entries, all -1 but [v_offset + 1] = 0.
bisectArray(b) ==
    Put([x \in 0..(b.v_length - 1) |-> -1], b.v_offset + 1, 0)

bisectRun(b, deadline, c) ==
    bisectLoop(b, 0,
               [v1 |-> bisectArray(b), v2 |-> bisectArray(b),
                k1start |-> 0, k1end |-> 0, k2start |-> 0, k2end |-> 0],
               deadline, c)

bisectResult(text1, text2, deadline, r) ==
    IF r.hit # NULL
    THEN diff_bisectSplit_(text1, text2, r.hit[1], r.hit[2], deadline, r.c)
    ELSE [diffs |-> <<Diff(DELETE, text1), Diff(INSERT, text2)>>, c |-> r.c]

diff_bisect_(text1, text2, deadline, c) ==
    bisectResult(text1, text2, deadline,
                 bisectRun(bisectFrame(text1, text2), deadline, c))

\* ---------------------------------------------------------------------------
\* diff_lineMode_, diff_compute_, diff_main
\* ---------------------------------------------------------------------------

\* "Delete the offending records and add the merged ones": sub is the result
\* of the character diff of the collected deletions and insertions.
lineModeRediff(st, n, sub) ==
    [st EXCEPT !.diffs = Splice(@, st.pointer - n, n, sub.diffs),
               !.pointer = st.pointer - n + Len(sub.diffs) + 1,
               !.count_insert = 0, !.count_delete = 0,
               !.text_delete = <<>>, !.text_insert = <<>>,
               !.c = sub.c]

lineModeAt(st, deadline, d) ==
    IF d.op = INSERT
    THEN [st EXCEPT !.count_insert = @ + 1, !.text_insert = @ \o d.text,
                    !.pointer = @ + 1]
    ELSE IF d.op = DELETE
    THEN [st EXCEPT !.count_delete = @ + 1, !.text_delete = @ \o d.text,
                    !.pointer = @ + 1]
    ELSE IF st.count_delete >= 1 /\ st.count_insert >= 1
    THEN lineModeRediff(st, st.count_delete + st.count_insert,
             diff_main(st.text_delete, st.text_insert, Some(FALSE), Some(deadline), st.c))
    ELSE [st EXCEPT !.pointer = @ + 1,
                    !.count_insert = 0, !.count_delete = 0,
                    !.text_delete = <<>>, !.text_insert = <<>>]

\* The rediff loop of diff_lineMode_ over st = [diffs, pointer, count_delete,
\* count_insert, text_delete, text_insert, c].
RECURSIVE lineModeSweep(_, _)
lineModeSweep(st, deadline) ==
    IF st.pointer >= Len(st.diffs) THEN st
    ELSE lineModeSweep(lineModeAt(st, deadline, At(st.diffs, st.pointer)), deadline)

\* "Remove the dummy entry at the end."
lineModePop(st) ==
    [diffs |-> SubSeq(st.diffs, 1, Len(st.diffs) - 1), c |-> st.c]

\* m is the result of the diff of the encoded lines.
lineModeLines(lineArray, deadline, m) ==
    lineModePop(lineModeSweep(
        [diffs |-> Append(diff_cleanupSemantic(diff_charsToLines_(m.diffs, lineArray)),
                          Diff(EQUAL, <<>>)),
         pointer |-> 0, count_delete |-> 0, count_insert |-> 0,
         text_delete |-> <<>>, text_insert |-> <<>>, c |-> m.c], deadline))

lineModeChars(a, deadline, c) ==
    lineModeLines(a.lineArray, deadline,
                  diff_main(a.chars1, a.chars2, Some(FALSE), Some(deadline), c))

diff_lineMode_(text1, text2, deadline, c) ==
    lineModeChars(diff_linesToChars_(text1, text2), deadline, c)

\* "Merge the results" of the two halves around mid_common.
computeHalfSecond(hm, checklines, deadline, diffs_a) ==
    ConcatDiffs([diffs |-> Append(diffs_a.diffs, Diff(EQUAL, hm[5])), c |-> diffs_a.c],
                diff_main(hm[2], hm[4], Some(checklines), Some(deadline), diffs_a.c))

computeHalf(text1, text2, checklines, deadline, c, hm) ==
    IF hm # NULL
    THEN computeHalfSecond(hm, checklines, deadline,
             diff_main(hm[1], hm[3], Some(checklines), Some(deadline), c))
    ELSE IF checklines /\ Len(text1) > 100 /\ Len(text2) > 100
    THEN diff_lineMode_(text1, text2, deadline, c)
    ELSE diff_bisect_(text1, text2, deadline, c)

computeInside(text1, text2, checklines, deadline, c, longtext, shorttext, i, op) ==
    IF i # -1
    THEN [diffs |-> << Diff(op, substring(longtext, 0, i)),
                       Diff(EQUAL, shorttext),
                       Diff(op, substringFrom(longtext, i + Len(shorttext))) >>,
          c |-> c]
    ELSE IF Len(shorttext) = 1
    THEN [diffs |-> <<Diff(DELETE, text1), Diff(INSERT, text2)>>, c |-> c]
    ELSE computeHalf(text1, text2, checklines, deadline, c, diff_halfMatch_(text1, text2))

computeLong(text1, text2, checklines, deadline, c, longtext, shorttext) ==
    computeInside(text1, text2, checklines, deadline, c, longtext, shorttext,
                  indexOf(longtext, shorttext),
                  IF Len(text1) > Len(text2) THEN DELETE ELSE INSERT)

diff_compute_(text1, text2, checklines, deadline, c) ==
    IF text1 = <<>> THEN [diffs |-> <<Diff(INSERT, text2)>>, c |-> c]
    ELSE IF text2 = <<>> THEN [diffs |-> <<Diff(DELETE, text1)>>, c |-> c]
    ELSE computeLong(text1, text2, checklines, deadline, c,
                     IF Len(text1) > Len(text2) THEN text1 ELSE text2,
                     IF Len(text1) > Len(text2) THEN text2 ELSE text1)

\* The prefix and the suffix restored, the records left as they come.
mainRestoreUnmerged(commonprefix, commonsuffix, r) ==
    [diffs |-> (IF commonprefix # <<>> THEN <<Diff(EQUAL, commonprefix)>> ELSE <<>>)
                   \o r.diffs
                   \o (IF commonsuffix # <<>> THEN <<Diff(EQUAL, commonsuffix)>> ELSE <<>>),
     c |-> r.c]

\* "Restore the prefix and suffix" around r, the diff of the middle block.
mainRestore(commonprefix, commonsuffix, r) ==
    [diffs |-> diff_cleanupMerge(
                   (IF commonprefix # <<>> THEN <<Diff(EQUAL, commonprefix)>> ELSE <<>>)
                       \o r.diffs
                       \o (IF commonsuffix # <<>> THEN <<Diff(EQUAL, commonsuffix)>> ELSE <<>>)),
     c |-> r.c]

mainSuffix(commonprefix, text1, text2, checklines, deadline, c, commonlength) ==
    mainRestore(commonprefix, substringFrom(text1, Len(text1) - commonlength),
        diff_compute_(substring(text1, 0, Len(text1) - commonlength),
                      substring(text2, 0, Len(text2) - commonlength),
                      checklines, deadline, c))

mainMiddle(commonprefix, text1, text2, checklines, deadline, c) ==
    mainSuffix(commonprefix, text1, text2, checklines, deadline, c,
               diff_commonSuffix(text1, text2))

mainPrefix(text1, text2, checklines, deadline, c, commonlength) ==
    mainMiddle(substring(text1, 0, commonlength),
               substringFrom(text1, commonlength), substringFrom(text2, commonlength),
               checklines, deadline, c)

\* diff_main once its deadline is set, c being the clock after that.
mainTimed(text1, text2, opt_checklines, deadline, c) ==
    IF text1 = text2
    THEN [diffs |-> IF text1 # <<>> THEN <<Diff(EQUAL, text1)>> ELSE <<>>, c |-> c]
    ELSE mainPrefix(text1, text2,
                    IF opt_checklines = NULL THEN TRUE ELSE opt_checklines[1],
                    deadline, c, diff_commonPrefix(text1, text2))

\* The deadline set from c, the clock after the reading of Date.now().
mainDeadline(text1, text2, opt_checklines, c) ==
    mainTimed(text1, text2, opt_checklines, c.now + Diff_Timeout * 1000, c)

\* opt_checklines and opt_deadline are nullable: NULL or Some(value).
diff_main(text1, text2, opt_checklines, opt_deadline, c) ==
    IF opt_deadline # NULL
    THEN mainTimed(text1, text2, opt_checklines, opt_deadline[1], c)
    ELSE IF Diff_Timeout <= 0
    THEN mainTimed(text1, text2, opt_checklines, MAX_VALUE, c)
    ELSE mainDeadline(text1, text2, opt_checklines, ClockRead(c))

\* ---------------------------------------------------------------------------
\* diff_text1, diff_text2
\* ---------------------------------------------------------------------------

\* list.join(''), by halves: lists of tens of thousands of strings are joined.
RECURSIVE joinRange(_, _, _)
joinRange(list, lo, hi) ==
    IF lo > hi THEN <<>>
    ELSE IF lo = hi THEN list[lo]
    ELSE joinRange(list, lo, (lo + hi) \div 2)
             \o joinRange(list, (lo + hi) \div 2 + 1, hi)

join(list) == joinRange(list, 1, Len(list))

TextsOf(diffs) == Array([i \in 1..Len(diffs) |-> diffs[i].text])

diff_text1(diffs) ==
    join(TextsOf(SelectSeq(diffs, LAMBDA d : d.op # INSERT)))

diff_text2(diffs) ==
    join(TextsOf(SelectSeq(diffs, LAMBDA d : d.op # DELETE)))

\* ---------------------------------------------------------------------------
\* Inputs
\* ---------------------------------------------------------------------------

\* Longest text over Alphabet that is enumerated.
MaxLen == 3
\* Most readings of the clock a call makes before the clock jumps.
MaxReads == 2
\* The clock stops advancing at MaxNow.
MaxNow == 1001

Alphabet == {97, 98}
\* How far the clock may jump during a call (ms): within and beyond a
\* Diff_Timeout of one second.
Lapses == {600, 1001}
TimeoutValues == {0, 1}

Strings(A, n) == UNION {[1..k -> A] : k \in 0..n}

RECURSIVE Repeat(_, _)
Repeat(s, n) == IF n = 0 THEN <<>> ELSE s \o Repeat(s, n - 1)

\* Texts of more than 100 code units that differ at both ends: line mode.
LongLineA == Repeat(<<48, 49, 50, 51, 52, 53, 54, 55, 56, 57>>, 5) \o <<10>>
LongLineB == Repeat(<<99, 100, 101, 102, 103, 104, 105, 106, 107, 108>>, 5) \o <<10>>
LongText1 == <<120, 10>> \o LongLineA \o <<121, 10>> \o LongLineB \o <<122>>
LongText2 == <<112, 10>> \o LongLineA \o <<113, 10>> \o LongLineB \o <<114>>
LongLineC == SubSeq(LongLineB, 1, 25) \o <<33>> \o SubSeq(LongLineB, 27, 51)
LongText3 == <<112, 10>> \o LongLineA \o <<113, 10>> \o LongLineC \o <<114>>

\* Pairs with a half match, and pairs long enough for line mode.
CraftedPairs ==
    { << <<49, 50, 51, 52, 53, 54, 55, 56, 57, 48>>, <<97, 51, 52, 53, 54, 55, 56, 122>> >>,
      << <<97, 98, 97, 97, 98, 98>>, <<98, 97, 97, 98, 97>> >>,
      <<LongText1, LongText2>>,
      <<LongText1, LongText3>> }

TextPairs == (Strings(Alphabet, MaxLen) \X Strings(Alphabet, MaxLen)) \cup CraftedPairs

\* The clocks a call may run against when it starts at time t.
Clocks(t) ==
    {[now |-> t, left |-> -1, next |-> t, late |-> FALSE]}
        \cup {[now |-> t, left |-> k, next |-> t + l, late |-> FALSE] :
                  k \in 0..MaxReads, l \in Lapses}

Idle == [op |-> "idle"]

-----------------------------------------------------------------------------
(* Specification Spec: the diff engine *)

Init ==
    /\ Diff_Timeout = 1
    /\ now = 0
    /\ Differ_deadline = NULL
    /\ segmentCodec = NULL
    /\ heap = <<>>
    /\ call = Idle
    /\ ret = <<>>

\* The caller assigns the public field Diff_Timeout.
SetTimeout ==
    /\ call = Idle
    /\ \E t \in TimeoutValues \ {Diff_Timeout} : Diff_Timeout' = t
    /\ UNCHANGED <<now, Differ_deadline, call, ret, segmentCodec, heap>>

\* diff_main has returned r: the caller holds its diffs, the clock has moved on.
DiffMainReturns(text1, text2, opt_checklines, opt_deadline, c, r) ==
    /\ call' = [op |-> "diff_main", text1 |-> text1, text2 |-> text2,
                opt_checklines |-> opt_checklines, opt_deadline |-> opt_deadline,
                c |-> c]
    /\ ret' = r.diffs
    /\ now' = r.c.now

\* A call of diff_main, with or without its optional arguments.
DiffMain ==
    /\ call = Idle
    /\ \E p \in TextPairs, opt_checklines \in {NULL, Some(TRUE), Some(FALSE)},
          opt_deadline \in {NULL, Some(now - 1), Some(now + 1000)}, c \in Clocks(now) :
          /\ c.next <= MaxNow
          /\ DiffMainReturns(p[1], p[2], opt_checklines, opt_deadline, c,
                 diff_main(p[1], p[2], opt_checklines, opt_deadline, c))
    /\ UNCHANGED <<Diff_Timeout, Differ_deadline, segmentCodec, heap>>

\* The caller is done with the result of a call that has returned (a call
\* that runs in steps has returned when its pc is "done").
Return ==
    /\ call # Idle
    /\ "pc" \in DOMAIN call => call.pc = "done"
    /\ call' = Idle
    /\ ret' = <<>>
    /\ UNCHANGED <<Diff_Timeout, now, Differ_deadline, segmentCodec, heap>>

Next == SetTimeout \/ DiffMain \/ Return

Spec == Init /\ [][Next]_vars

\* C1: the diff returned by diff_main reconstructs both inputs, whatever the
\* checklines flag, the deadline (passed, finite or none) and the clock: the
\* texts of its Delete and Equal records concatenate to text1, those of its
\* Insert and Equal records to text2.
C1_Reconstructs ==
    call.op = "diff_main" =>
        /\ diff_text1(ret) = call.text1
        /\ diff_text2(ret) = call.text2

\* A diff_main call that returned deletions, insertions and equalities.
C1_Witness ==
    /\ call.op = "diff_main"
    /\ \E i, j, k \in 1..Len(ret) :
          ret[i].op = DELETE /\ ret[j].op = INSERT /\ ret[k].op = EQUAL
    /\ diff_text1(ret) = call.text1
    /\ diff_text2(ret) = call.text2

\* ---------------------------------------------------------------------------
\* Strings as iterables, Array.prototype.join, Map
\* ---------------------------------------------------------------------------

\* UTF-16 lead (high) and trail (low) surrogates.
isLead(u) == u >= 55296 /\ u <= 56319
isTrail(u) == u >= 56320 /\ u <= 57343

\* The code unit s[i] is the second half of a surrogate pair.  A lead
\* surrogate never is, so the unit before a trail surrogate decides.
Continues(s, i) == i > 1 /\ i <= Len(s) /\ isTrail(s[i]) /\ isLead(s[i - 1])

Indices(s) == Array([i \in 1..Len(s) |-> i])

StringIterAt(s, starts) ==
    Array([k \in 1..Len(starts) |->
              IF Continues(s, starts[k] + 1)
              THEN <<s[starts[k]], s[starts[k] + 1]>>
              ELSE <<s[starts[k]]>>])

\* The iteration of a string by code unit, pairs not kept together.
iterCodeUnits(s) == Array([i \in 1..Len(s) |-> <<s[i]>>])

\* String.prototype[Symbol.iterator], and so [...s]: the code points of s, a
\* surrogate pair being one string of two code units.
StringIter(s) ==
    StringIterAt(s, SelectSeq(Indices(s), LAMBDA i : ~Continues(s, i)))

\* A Map from strings is a hash map: MapBuckets functions from the keys set so
\* far to their values, a key living in the bucket of its last code unit.
MapBuckets == 256
MapHash(key) == IF key = <<>> THEN 0 ELSE key[Len(key)] % MapBuckets
MapNew == [b \in 0..(MapBuckets - 1) |-> <<>>]
MapHas(map, key) == key \in DOMAIN map[MapHash(key)]
MapGet(map, key) == map[MapHash(key)][key]
MapSet(map, key, value) == [map EXCEPT ![MapHash(key)] = Put(@, key, value)]

\* ---------------------------------------------------------------------------
\* SegmentCodec
\* ---------------------------------------------------------------------------

\* The encode loop works on st: the fields #n, #encoded, #decoded of the
\* codec, the local out, and done, set by the break.

\* "out += this.#encoded.get(segment)!"
EncodeOut(st, segment) ==
    [st EXCEPT !.out = @ \o MapGet(st.encoded, segment)]

\* #n has reached max: the segment and all that follow are one segment.
EncodeRest(st, char, s) ==
    [st EXCEPT !.encoded = MapSet(@, s, char),
               !.decoded = MapSet(@, char, s),
               !.out = @ \o char,
               !.done = TRUE]

\* A segment met for the first time, #n already incremented.
EncodeNew(st, segments, max, i, char) ==
    IF st.n = max
    THEN EncodeRest(st, char, joinRange(segments, i, Len(segments)))
    ELSE EncodeOut([st EXCEPT !.encoded = MapSet(@, segments[i], char),
                              !.decoded = MapSet(@, char, segments[i])],
                   segments[i])

EncodeStep(st, segments, max, i) ==
    IF ~MapHas(st.encoded, segments[i])
    THEN EncodeNew([st EXCEPT !.n = @ + 1], segments, max, i, fromCharCode(st.n + 1))
    ELSE EncodeOut(st, segments[i])

\* The for loop of encode over segments[lo..hi], by halves.
RECURSIVE EncodeRange(_, _, _, _, _)
EncodeRange(st, segments, max, lo, hi) ==
    IF st.done \/ lo > hi THEN st
    ELSE IF lo = hi THEN EncodeStep(st, segments, max, lo)
    ELSE EncodeRange(EncodeRange(st, segments, max, lo, (lo + hi) \div 2),
                     segments, max, (lo + hi) \div 2 + 1, hi)

\* new SegmentCodec()
SegmentCodec == [n |-> 0, encoded |-> MapNew, decoded |-> MapNew]

\* A refusal that counts the call.
encodeCounting(codec) ==
    [n |-> codec.n + 1, encoded |-> codec.encoded, decoded |-> codec.decoded,
     out |-> <<>>, done |-> TRUE, threw |-> TRUE]

\* unreachable(...): encode ends by throwing, the codec as it was.
encodeUnreachable(codec) ==
    [n |-> codec.n, encoded |-> codec.encoded, decoded |-> codec.decoded,
     out |-> <<>>, done |-> TRUE, threw |-> TRUE]

\* codec.encode(segments, max): the codec afterwards with the string returned
\* in out; threw when the call ends in unreachable().
encode(codec, segments, max) ==
    IF codec.n >= max THEN encodeUnreachable(codec)
    ELSE [threw |-> FALSE] @@
         EncodeRange([n |-> codec.n, encoded |-> codec.encoded, decoded |-> codec.decoded,
                      out |-> <<>>, done |-> FALSE],
                     segments, max, 1, Len(segments))

decodeAll(codec, chars) ==
    Array([k \in 1..Len(chars) |->
              IF MapHas(codec.decoded, chars[k]) THEN MapGet(codec.decoded, chars[k])
              ELSE <<>>])

\* codec.decode(text): the segments of the characters of text.
decode(codec, text) == decodeAll(codec, StringIter(text))


\* ---------------------------------------------------------------------------
\* Differ
\* ---------------------------------------------------------------------------

\* A segmenter is [kind, of]: segmenters.char, segmenters.line, the custom
\* code-unit segmenter (str) => str.split(''), or any other segmenter, given
\* by the segments `of` it yields for each text ("cuts": Intl.Segmenter
\* instances and custom functions).
segmenters ==
    [char |-> [kind |-> "char", of |-> <<>>],
     line |-> [kind |-> "line", of |-> <<>>]]

split(str) == Array([i \in 1..Len(str) |-> <<str[i]>>])

RECURSIVE lineFrom(_, _)
\* A generator that yields the lines without their line ends.
lineYieldBare(str, i, n) == <<substring(str, i, n)>> \o lineFrom(str, n + 1)

lineYield(str, i, n) == <<substring(str, i, n + 1)>> \o lineFrom(str, n + 1)

lineFrom(str, i) ==
    IF i < Len(str)
    THEN lineYield(str, i, (Len(str) + indexOfFrom(str, <<10>>, i)) % Len(str))
    ELSE <<>>

line(str) == lineFrom(str, 0)

toSegmentFn(segmenter, str) ==
    CASE segmenter.kind = "char" -> StringIter(str)
      [] segmenter.kind = "line" -> line(str)
      [] segmenter.kind = "units" -> split(str)
      [] segmenter.kind = "cuts" -> segmenter.of[str]

\* A segmenter function of the caller that throws when it is called.
throwingSegmenter == [kind |-> "throws", of |-> <<>>]

defaultDiffOptions ==
    [segmenter |-> segmenters.char, join |-> TRUE, checkLines |-> FALSE]

\* /[\uD800-\uDBFF]/.test(str)
hasLeadSurrogate(str) == \E i \in 1..Len(str) : isLead(str[i])

\* The decode function returned by #diffInternal: (x) => [x], x.split('') or
\* the codec's decode.
decodeWith(dec, text) ==
    CASE dec.kind = "whole" -> <<text>>
      [] dec.kind = "split" -> split(text)
      [] dec.kind = "codec" -> decode(dec.codec, text)

\* #diffInternal on the encoded path, from the second encode on.  A result is
\* [encodedDiffs, decode, c, threw].
internalThrew(c) ==
    [encodedDiffs |-> <<>>, decode |-> [kind |-> "whole"], c |-> c, threw |-> TRUE]

internalResult(codec, dm) ==
    [encodedDiffs |-> dm.diffs,
     decode |-> [kind |-> "codec", codec |-> codec],
     c |-> dm.c, threw |-> FALSE]

internalDiff(options, deadline, c, chars1, e2) ==
    IF e2.threw THEN internalThrew(c)
    ELSE internalResult(e2, diff_main(chars1, e2.out, Some(options.checkLines),
                                      deadline, c))

internalSecond(after, options, deadline, c, e1) ==
    IF e1.threw THEN internalThrew(c)
    ELSE internalDiff(options, deadline, c, e1.out,
             encode(e1, toSegmentFn(options.segmenter, after), options.maxAfter))

internalPlain(options, dm) ==
    [encodedDiffs |-> dm.diffs,
     decode |-> [kind |-> IF options.join THEN "whole" ELSE "split"],
     c |-> dm.c, threw |-> FALSE]

\* deadline is the #deadline field: NULL or Some(time).
diffInternal(before, after, options, deadline, c) ==
    IF options.segmenter = segmenters.char /\ ~hasLeadSurrogate(before \o after)
    THEN internalPlain(options, diff_main(before, after, Some(options.checkLines),
                                          deadline, c))
    ELSE IF options.segmenter = throwingSegmenter THEN internalThrew(c)
    ELSE internalSecond(after, options, deadline, c,
             encode(SegmentCodec, toSegmentFn(options.segmenter, before),
                    options.maxBefore))

diffJoined(r) ==
    SelectSeq(Array([i \in 1..Len(r.encodedDiffs) |->
                         Diff(r.encodedDiffs[i].op,
                              join(decodeWith(r.decode, r.encodedDiffs[i].text)))]),
              LAMBDA x : x.text # <<>>)

diffSegments(op, list) == Array([k \in 1..Len(list) |-> Diff(op, list[k])])

diffFlat(r) ==
    join(Array([i \in 1..Len(r.encodedDiffs) |->
                    diffSegments(r.encodedDiffs[i].op,
                        SelectSeq(decodeWith(r.decode, r.encodedDiffs[i].text),
                                  LAMBDA segment : segment # <<>>))]))

diffOut(opts, r) ==
    [diffs |-> IF r.threw THEN <<>>
               ELSE IF ~opts.join THEN diffFlat(r) ELSE diffJoined(r),
     c |-> r.c, threw |-> r.threw]

\* options is the caller's partial options record.
diff(before, after, options, deadline, c) ==
    IF before = after
    THEN [diffs |-> IF before # <<>> THEN <<Diff(EQUAL, before)>> ELSE <<>>,
          c |-> c, threw |-> FALSE]
    ELSE diffOut(options @@ defaultDiffOptions,
             diffInternal(before, after,
                 [maxBefore |-> MAX_SEGMENTS_2_3, maxAfter |-> MAX_SEGMENTS]
                     @@ options @@ defaultDiffOptions,
                 deadline, c))

diffCodeUnits(before, after, options, deadline, c) ==
    diff_main(before, after, Some((options @@ defaultDiffOptions).checkLines),
              deadline, c)

\* #timeboxed sets #deadline before the callback runs.
timeboxed(c) == Some(c.now + Diff_Timeout * 1000)

withinFlushDeleted(w) ==
    IF w.del # <<>> THEN << <<Diff(DELETE, w.del)>> >> ELSE <<>>

\* One iteration of the loop of diffWithin over w = [out, ins, del, c, threw];
\* threw when this.diff has thrown.
withinFlush(w) ==
    (IF w.del # <<>> THEN << <<Diff(DELETE, w.del)>> >> ELSE <<>>)
        \o (IF w.ins # <<>> THEN << <<Diff(INSERT, w.ins)>> >> ELSE <<>>)

withinPush(w, r) ==
    [w EXCEPT !.out = Append(@, r.diffs), !.ins = <<>>, !.del = <<>>, !.c = r.c,
              !.threw = r.threw]

withinStep(w, d, options, deadline) ==
    IF d.op = EQUAL
    THEN [w EXCEPT !.out = @ \o withinFlush(w) \o << <<d>> >>,
                   !.ins = <<>>, !.del = <<>>]
    ELSE IF d.op = INSERT
    THEN IF w.del # <<>>
         THEN withinPush(w, diff(w.del, d.text, options, deadline, w.c))
         ELSE [w EXCEPT !.out = @ \o withinFlush(w), !.ins = d.text]
    ELSE IF w.ins # <<>>
         THEN withinPush(w, diff(d.text, w.ins, options, deadline, w.c))
         ELSE [w EXCEPT !.out = @ \o withinFlush(w), !.del = d.text]


-----------------------------------------------------------------------------
(* Specification SpecDiffer: the Differ class *)

\* Most code points of a text given to Differ.diff.
MaxPoints == 2
\* Most code units of a text given to a custom segmenter.
MaxCutLen == 2
\* Most records of a list given to Differ.diffWithin.
MaxDiffs == 2

\* "a", "b" and two non-BMP characters with the same lead surrogate.
CodePoints == {<<97>>, <<98>>, <<55357, 56491>>, <<55357, 56489>>}

RECURSIVE PointTexts(_)
PointTexts(n) ==
    IF n = 0 THEN {<<>>}
    ELSE PointTexts(n - 1)
             \cup {t \o p : t \in PointTexts(n - 1), p \in CodePoints}

WellFormed(s) ==
    \A i \in 1..Len(s) :
        /\ isLead(s[i]) => i < Len(s) /\ isTrail(s[i + 1])
        /\ isTrail(s[i]) => i > 1 /\ isLead(s[i - 1])

\* Texts with lone surrogates, texts of lines.
IllFormedTexts == {<<55357>>, <<56491, 55357>>, <<97, 56489>>}
LineTexts == {<<10>>, <<97, 10>>, <<97, 10, 98>>, <<98, 10, 97, 10>>}

DifferTexts == PointTexts(MaxPoints) \cup IllFormedTexts \cup LineTexts

\* The caller's options: any subset of the fields may be given.
DifferOptions ==
    {<<>>, [join |-> FALSE], [checkLines |-> TRUE]}
        \cup {[segmenter |-> s, join |-> j] :
                  s \in {segmenters.char, segmenters.line,
                         [kind |-> "units", of |-> <<>>]},
                  j \in BOOLEAN}

\* The segments of text that start at 0 and at the cuts; with pad, after an
\* empty segment.
SegmentsAt(text, cuts, pad) ==
    LET starts == SelectSeq([i \in 1..Len(text) |-> i - 1],
                            LAMBDA i : i = 0 \/ i \in cuts)
    IN  (IF pad THEN << <<>> >> ELSE <<>>)
            \o [k \in 1..Len(starts) |->
                   substring(text, starts[k],
                             IF k < Len(starts) THEN starts[k + 1] ELSE Len(text))]

\* Every list of segments that concatenates to text.
Segmentations(text) ==
    {SegmentsAt(text, cuts, pad) :
         cuts \in SUBSET (1..(Len(text) - 1)), pad \in BOOLEAN}

Steady(t) == [now |-> t, left |-> -1, next |-> t, late |-> FALSE]

WithinTexts == {<<>>, <<97, 98>>, <<98, 97>>}
WithinDiffs == {Diff(op, text) : op \in {DELETE, INSERT, EQUAL}, text \in WithinTexts}
WithinInputs == UNION {[1..k -> WithinDiffs] : k \in 0..MaxDiffs}

\* Differ.diff has returned r.
DiffReturns(before, after, options, c, r) ==
    /\ call' = [op |-> "diff", before |-> before, after |-> after,
                options |-> options, c |-> c, late |-> r.c.late, threw |-> r.threw]
    /\ ret' = r.diffs
    /\ now' = r.c.now

\* A call of Differ.diff with a built-in or code-unit segmenter.
DifferDiff ==
    /\ call = Idle
    /\ \E before \in DifferTexts, after \in DifferTexts, options \in DifferOptions,
          c \in Clocks(now) :
          /\ c.next <= MaxNow
          /\ DiffReturns(before, after, options, c,
                 diff(before, after, options, Differ_deadline, c))
    /\ UNCHANGED <<Diff_Timeout, Differ_deadline, segmentCodec, heap>>

\* A call of Differ.diff with any other segmenter, while the clock stands.
DifferDiffCuts ==
    /\ call = Idle
    /\ \E before \in Strings(Alphabet, MaxCutLen), after \in Strings(Alphabet, MaxCutLen),
          join_ \in BOOLEAN :
          \E s1 \in Segmentations(before), s2 \in Segmentations(after) :
              DiffReturns(before, after,
                  [segmenter |-> [kind |-> "cuts", of |-> (before :> s1) @@ (after :> s2)],
                   join |-> join_],
                  Steady(now),
                  diff(before, after,
                       [segmenter |-> [kind |-> "cuts", of |-> (before :> s1) @@ (after :> s2)],
                        join |-> join_],
                       Differ_deadline, Steady(now)))
    /\ UNCHANGED <<Diff_Timeout, Differ_deadline, segmentCodec, heap>>

DiffCodeUnitsReturns(before, after, options, c, r) ==
    /\ call' = [op |-> "diffCodeUnits", before |-> before, after |-> after,
                options |-> options, c |-> c, late |-> r.c.late]
    /\ ret' = r.diffs
    /\ now' = r.c.now

\* A call of Differ.diffCodeUnits.
DifferDiffCodeUnits ==
    /\ call = Idle
    /\ \E before \in DifferTexts, after \in DifferTexts,
          options \in {<<>>, [checkLines |-> TRUE]}, c \in Clocks(now) :
          /\ c.next <= MaxNow
          /\ DiffCodeUnitsReturns(before, after, options, c,
                 diffCodeUnits(before, after, options, Differ_deadline, c))
    /\ UNCHANGED <<Diff_Timeout, Differ_deadline, segmentCodec, heap>>

\* Differ.diffWithin starts: #timeboxed reads the clock and sets #deadline.
DiffWithinEnters(diffs, options, c) ==
    /\ call' = [op |-> "diffWithin", pc |-> "loop", diffs |-> diffs,
                options |-> options, rest |-> diffs, late |-> FALSE, threw |-> FALSE,
                w |-> [out |-> <<>>, ins |-> <<>>, del |-> <<>>, c |-> c,
                       threw |-> FALSE]]
    /\ Differ_deadline' = timeboxed(c)
    /\ now' = c.now

DiffWithinBegin ==
    /\ call = Idle
    /\ \E diffs \in WithinInputs,
          options \in {<<>>, [join |-> FALSE], [segmenter |-> throwingSegmenter]},
          c \in Clocks(now) :
          /\ c.next <= MaxNow
          /\ DiffWithinEnters(diffs, options, ClockRead(c))
    /\ UNCHANGED <<Diff_Timeout, ret, segmentCodec, heap>>

\* One iteration of the loop of diffWithin has left w.
DiffWithinSteps(w) ==
    /\ call' = [call EXCEPT !.rest = Tail(@), !.w = w, !.late = w.c.late]
    /\ now' = w.c.now

DiffWithinStep ==
    /\ call.op = "diffWithin" /\ call.pc = "loop" /\ call.rest # <<>>
    /\ ~call.w.threw
    /\ DiffWithinSteps(withinStep(call.w, Head(call.rest), call.options, Differ_deadline))
    /\ UNCHANGED <<Diff_Timeout, Differ_deadline, ret, segmentCodec, heap>>

\* The loop is over: the pending texts are pushed, #deadline is reset.
DiffWithinEnd ==
    /\ call.op = "diffWithin" /\ call.pc = "loop" /\ call.rest = <<>>
    /\ ~call.w.threw
    /\ call' = [call EXCEPT !.pc = "done"]
    /\ ret' = call.w.out \o withinFlush(call.w)
    /\ Differ_deadline' = NULL
    /\ UNCHANGED <<Diff_Timeout, now, segmentCodec, heap>>

DiffWithinThrowsLive ==
    /\ call.op = "diffWithin" /\ call.pc = "loop"
    /\ call.w.threw
    /\ call' = [call EXCEPT !.pc = "done", !.threw = TRUE]
    /\ ret' = <<>>
    /\ UNCHANGED <<Diff_Timeout, now, Differ_deadline, segmentCodec, heap>>

\* this.diff has thrown: the error leaves the loop and the callback, and the
\* finally block of #timeboxed resets #deadline.
DiffWithinThrows ==
    /\ call.op = "diffWithin" /\ call.pc = "loop"
    /\ call.w.threw
    /\ call' = [call EXCEPT !.pc = "done", !.threw = TRUE]
    /\ ret' = <<>>
    /\ Differ_deadline' = NULL
    /\ UNCHANGED <<Diff_Timeout, now, segmentCodec, heap>>

NextDiffer ==
    \/ SetTimeout
    \/ DiffWithinBegin
    \/ DiffWithinStep
    \/ DiffWithinEnd
    \/ DiffWithinThrows
    \/ DifferDiff
    \/ DifferDiffCuts
    \/ DifferDiffCodeUnits
    \/ Return

SpecDiffer == Init /\ [][NextDiffer]_vars


\* C4: with the default segmenter and well-formed UTF-16 inputs, no record
\* returned by Differ.diff (join true or false) begins with a trail surrogate
\* or ends with a lead surrogate; diffCodeUnits on two non-BMP characters
\* with the same lead surrogate does split the pairs across records.
C4_PairsIndivisible ==
    /\ ( /\ call.op = "diff"
         /\ (call.options @@ defaultDiffOptions).segmenter = segmenters.char
         /\ WellFormed(call.before) /\ WellFormed(call.after) )
       => \A i \in 1..Len(ret) :
              /\ ret[i].text # <<>>
              /\ ~isTrail(ret[i].text[1])
              /\ ~isLead(ret[i].text[Len(ret[i].text)])
    /\ ( /\ call.op = "diffCodeUnits"
         /\ call.before = <<55357, 56491>> /\ call.after = <<55357, 56489>> )
       => ret = <<Diff(EQUAL, <<55357>>), Diff(DELETE, <<56491>>), Diff(INSERT, <<56489>>)>>

\* Differ.diff with the default segmenter has diffed texts in which a
\* non-BMP character was replaced by another with the same lead surrogate.
C4_Witness ==
    /\ call.op = "diff"
    /\ "segmenter" \notin DOMAIN call.options
    /\ call.before = <<97, 55357, 56491>> /\ call.after = <<97, 55357, 56489>>
    /\ ret = <<Diff(EQUAL, <<97>>), Diff(DELETE, <<55357, 56491>>),
               Diff(INSERT, <<55357, 56489>>)>>

\* C8: with Diff_Timeout = 0 no diff computed through Differ.diff,
\* Differ.diffCodeUnits or Differ.diffWithin is cut short by the deadline
\* check of the bisection.
C8_ZeroIsUnlimited ==
    (Diff_Timeout = 0 /\ call.op \in {"diff", "diffCodeUnits", "diffWithin"})
        => ~call.late

-----------------------------------------------------------------------------
(* Specification SpecCap: Differ.diff on texts of very many distinct segments *)

\* Distinct code points of CapText: the codec then hands out the characters
\* 1 .. CapPoints, past the last lead surrogate 0xDBFF.
CapPoints == 56320

\* One non-BMP character followed by distinct BMP characters, none of them a
\* surrogate: well-formed UTF-16.
CapText ==
    <<55357, 56491>> \o [i \in 1..(CapPoints - 1) |-> IF i < 55296 THEN i ELSE i + 2048]

\* A call of Differ.diff with the default segmenter that inserts or deletes
\* CapText.
DifferDiffCap ==
    /\ call = Idle
    /\ \E p \in {<< <<>>, CapText >>, << CapText, <<>> >>},
          options \in {<<>>, [join |-> FALSE]} :
          DiffReturns(p[1], p[2], options, Steady(now),
                      diff(p[1], p[2], options, Differ_deadline, Steady(now)))
    /\ UNCHANGED <<Diff_Timeout, Differ_deadline, segmentCodec, heap>>

\* Texts of more distinct code units than the codec allows the first text:
\* the units 1 .. MAX_SEGMENTS_2_3 + 2, and the same with another last unit.
CapUnits == <<>> \o [i \in 1..(MAX_SEGMENTS_2_3 + 2) |-> i]
CapUnitsEdited == SubSeq(CapUnits, 1, MAX_SEGMENTS_2_3 + 1) \o <<50000>>

\* A call of Differ.diff with the code-unit segmenter on the texts above.
DifferDiffUnitsCap ==
    /\ call = Idle
    /\ DiffReturns(CapUnits, CapUnitsEdited,
                   [segmenter |-> [kind |-> "units", of |-> <<>>]], Steady(now),
                   diff(CapUnits, CapUnitsEdited,
                        [segmenter |-> [kind |-> "units", of |-> <<>>]],
                        Differ_deadline, Steady(now)))
    /\ UNCHANGED <<Diff_Timeout, Differ_deadline, segmentCodec, heap>>


NextCap == DifferDiffCap \/ DifferDiffUnitsCap \/ DifferDiffCuts \/ Return

SpecCap == Init /\ [][NextCap]_vars

\* C2: the records returned by Differ.diff reconstruct both inputs, for every
\* segmenter whose segments concatenate to its input, join true or false, and
\* any number of distinct segments: the Delete and Equal texts concatenate to
\* before, the Insert and Equal texts to after.
C2_Reconstructs ==
    call.op = "diff" =>
        /\ ~call.threw
        /\ diff_text1(ret) = call.before
        /\ diff_text2(ret) = call.after


-----------------------------------------------------------------------------
(* Specification SpecCleanup: the cleanup passes on any diff sequence *)

\* Most records of a sequence given to a cleanup pass, most code units of a
\* record's text.
MaxRecords == 4
MaxCleanLen == 2

\* Non-empty texts of letters and spaces.
CleanupTexts == Strings({97, 32}, MaxCleanLen) \ {<<>>}
CleanupDiffs ==
    {Diff(op, text) : op \in {DELETE, INSERT, EQUAL}, text \in CleanupTexts}
CleanupInputs == UNION {[1..k -> CleanupDiffs] : k \in 0..MaxRecords}

CleanupPasses ==
    {"diff_cleanupMerge", "diff_cleanupSemantic", "diff_cleanupSemanticLossless",
     "diff_cleanupEfficiency"}

\* The array diffs after the pass has rewritten it in place.
cleanup(pass, diffs) ==
    CASE pass = "diff_cleanupMerge" -> diff_cleanupMerge(diffs)
      [] pass = "diff_cleanupSemantic" -> diff_cleanupSemantic(diffs)
      [] pass = "diff_cleanupSemanticLossless" -> diff_cleanupSemanticLossless(diffs)
      [] pass = "diff_cleanupEfficiency" -> diff_cleanupEfficiency(diffs)

\* A cleanup pass runs on an array of diffs.
Cleanup ==
    /\ call = Idle
    /\ \E pass \in CleanupPasses, diffs \in CleanupInputs :
          /\ call' = [op |-> pass, diffs |-> diffs, runs |-> 1, first |-> <<>>]
          /\ ret' = cleanup(pass, diffs)
    /\ UNCHANGED <<Diff_Timeout, now, Differ_deadline, segmentCodec, heap>>

\* The same pass runs again on the array it has rewritten.
CleanupAgain ==
    /\ call.op \in CleanupPasses /\ call.runs = 1
    /\ call' = [call EXCEPT !.runs = 2, !.first = ret]
    /\ ret' = cleanup(call.op, ret)
    /\ UNCHANGED <<Diff_Timeout, now, Differ_deadline, segmentCodec, heap>>

NextCleanup == Cleanup \/ CleanupAgain \/ Return

SpecCleanup == Init /\ [][NextCleanup]_vars

\* C9: after diff_cleanupMerge no two adjacent records have the same
\* operation and no record has empty text.
C9_Merged ==
    (call.op = "diff_cleanupMerge" /\ call.runs = 1) =>
        /\ \A i \in 1..Len(ret) : ret[i].text # <<>>
        /\ \A i \in 1..(Len(ret) - 1) : ret[i].op # ret[i + 1].op

\* C10: a second run of diff_cleanupMerge on its own output leaves the
\* sequence unchanged.
C10_MergeIdempotent ==
    (call.op = "diff_cleanupMerge" /\ call.runs = 2) => ret = call.first

\* C11: a second run of diff_cleanupSemantic, diff_cleanupSemanticLossless or
\* diff_cleanupEfficiency on its own output leaves the sequence unchanged.
C11_CleanupIdempotent ==
    ( /\ call.op \in {"diff_cleanupSemantic", "diff_cleanupSemanticLossless",
                      "diff_cleanupEfficiency"}
      /\ call.runs = 2 )
        => ret = call.first


\* The checkLines option of a call, as diffCodeUnits takes it.
checkLinesOf(options) ==
    IF "checkLines" \in DOMAIN options THEN [checkLines |-> options.checkLines]
    ELSE <<>>

\* C14: Differ.diff with the segmenter s => s.split('') returns the records
\* (joined, as by default) that Differ.diffCodeUnits returns for the same
\* texts, checkLines setting and clock.
C14_UnitsAsCodeUnits ==
    ( /\ call.op = "diff"
      /\ "segmenter" \in DOMAIN call.options
      /\ call.options.segmenter.kind = "units"
      /\ (call.options @@ defaultDiffOptions).join )
        => ret = diffCodeUnits(call.before, call.after, checkLinesOf(call.options),
                               NULL, call.c).diffs


-----------------------------------------------------------------------------
(* Specifications SpecLines and SpecSegments: segmenters.line, a SegmentCodec *)

\* Most code units of a text given to segmenters.line, most segments of a
\* list given to encode, the largest max given to encode.
MaxLineLen == 6
MaxSegments == 3
MaxCodes == 3

LineInputs == Strings({97, 10}, MaxLineLen)
CodecSegments == {<<>>, <<97>>, <<98>>}
CodecInputs == UNION {[1..k -> CodecSegments] : k \in 0..MaxSegments}
\* Texts of codes, the last of them a code the codec never hands out.
CodecTexts == Strings(1..(MaxCodes + 1), 2)

\* segmenters.line is iterated to its end.
SegmentLine ==
    /\ call = Idle
    /\ \E str \in LineInputs :
          /\ call' = [op |-> "line", str |-> str]
          /\ ret' = line(str)
    /\ UNCHANGED <<Diff_Timeout, now, Differ_deadline, segmentCodec, heap>>

\* new SegmentCodec()
CodecNew ==
    /\ call = Idle
    /\ segmentCodec' = SegmentCodec
    /\ call' = [op |-> "new"]
    /\ ret' = <<>>
    /\ UNCHANGED <<Diff_Timeout, now, Differ_deadline, heap>>

\* encode has ended in r: it returned r.out or threw.
CodecEncodes(segments, max, r) ==
    /\ call' = [op |-> "encode", segments |-> segments, max |-> max,
                n |-> segmentCodec.n, threw |-> r.threw]
    /\ ret' = r.out
    /\ segmentCodec' = [n |-> r.n, encoded |-> r.encoded, decoded |-> r.decoded]

CodecEncode ==
    /\ call = Idle /\ segmentCodec # NULL
    /\ \E segments \in CodecInputs, max \in 1..MaxCodes :
          CodecEncodes(segments, max, encode(segmentCodec, segments, max))
    /\ UNCHANGED <<Diff_Timeout, now, Differ_deadline, heap>>

\* A codec just constructed encodes the code points of CapText, max being
\* their number.
CodecEncodeCap ==
    /\ call = Idle /\ segmentCodec = SegmentCodec
    /\ CodecEncodes(StringIter(CapText), CapPoints,
                    encode(segmentCodec, StringIter(CapText), CapPoints))
    /\ UNCHANGED <<Diff_Timeout, now, Differ_deadline, heap>>

CodecDecode ==
    /\ call = Idle /\ segmentCodec # NULL
    /\ \E text \in CodecTexts :
          /\ call' = [op |-> "decode", text |-> text]
          /\ ret' = decode(segmentCodec, text)
    /\ UNCHANGED <<Diff_Timeout, now, Differ_deadline, segmentCodec, heap>>

NextLines == SegmentLine \/ Return

SpecLines == Init /\ [][NextLines]_vars

NextSegments ==
    \/ CodecNew
    \/ CodecEncode
    \/ CodecEncodeCap
    \/ CodecDecode
    \/ Return

SpecSegments == Init /\ [][NextSegments]_vars

C17_CapCode ==
    ( /\ call.op = "encode" /\ ~call.threw
      /\ call.n < call.max /\ segmentCodec.n = call.max )
        => /\ ret # <<>>
           /\ <<ret[Len(ret)]>> = fromCharCode(call.max)
           /\ MapGet(segmentCodec.decoded, fromCharCode(call.max))
                  = joinRange(call.segments, Len(ret), Len(call.segments))
           /\ join(decode(segmentCodec, ret)) = join(call.segments)

\* C20: the segments of segmenters.line concatenate to the string, each but
\* possibly the last ends with a line feed, none holds a line feed elsewhere,
\* and the empty string has no segments.
C20_LineContract ==
    call.op = "line" =>
        /\ join(ret) = call.str
        /\ \A k \in 1..Len(ret) :
              /\ ret[k] # <<>>
              /\ k < Len(ret) => ret[k][Len(ret[k])] = 10
              /\ \A j \in 1..(Len(ret[k]) - 1) : ret[k][j] # 10
        /\ call.str = <<>> => ret = <<>>

\* segmenters.line has split a text of several lines, the last one open.
C20_Witness ==
    /\ call.op = "line"
    /\ Len(ret) >= 3
    /\ ret[Len(ret)][Len(ret[Len(ret)])] # 10
    /\ join(ret) = call.str


\* The groups diffWithin is to emit for diffs[i..]: an edit followed by the
\* opposite edit makes one group, the diff of the two texts taken on its own;
\* every other record makes a group of itself.
RECURSIVE withinGroups(_, _, _)
withinPair(diffs, i, options) ==
    IF diffs[i].op = DELETE
    THEN diff(diffs[i].text, diffs[i + 1].text, options, NULL, Steady(0)).diffs
    ELSE diff(diffs[i + 1].text, diffs[i].text, options, NULL, Steady(0)).diffs

withinGroups(diffs, i, options) ==
    IF i > Len(diffs) THEN <<>>
    ELSE IF /\ i < Len(diffs)
            /\ {diffs[i].op, diffs[i + 1].op} = {DELETE, INSERT}
    THEN <<withinPair(diffs, i, options)>> \o withinGroups(diffs, i + 2, options)
    ELSE << <<diffs[i]>> >> \o withinGroups(diffs, i + 1, options)

\* C15: diffWithin emits its groups in input order: every Equal record and
\* every unpaired Insert or Delete record is a group of its own, unchanged,
\* and every adjacent Delete/Insert pair is one group, equal to
\* diff(deleteText, insertText, options). Runs that a non-zero Diff_Timeout
\* cut short, and calls that threw, are left aside.
C15_WithinGroups ==
    (call.op = "diffWithin" /\ call.pc = "done" /\ ~call.threw
        /\ (Diff_Timeout = 0 \/ ~call.late))
        => ret = withinGroups(call.diffs, 1, call.options)


-----------------------------------------------------------------------------
(* diff_toDelta and diff_fromDelta, with the URI coding of the runtime *)

\* The characters encodeURI leaves as they are: letters, digits, the marks
\* - _ . ! ~ * ' ( ) and the reserved characters ; / ? : @ & = + $ , with #.
uriReserved == {59, 47, 63, 58, 64, 38, 61, 43, 36, 44, 35}
uriUnescaped == (65..90) \cup (97..122) \cup (48..57)
                    \cup {45, 95, 46, 33, 126, 42, 39, 40, 41}

hexChar(d) == IF d < 10 THEN 48 + d ELSE 55 + d
hexValue(u) ==
    IF u >= 48 /\ u <= 57 THEN u - 48
    ELSE IF u >= 65 /\ u <= 70 THEN u - 55
    ELSE IF u >= 97 /\ u <= 102 THEN u - 87
    ELSE -1

\* The UTF-8 octets of a code point.
utf8(cp) ==
    IF cp < 128 THEN <<cp>>
    ELSE IF cp < 2048 THEN <<192 + (cp \div 64), 128 + (cp % 64)>>
    ELSE IF cp < 65536
    THEN <<224 + (cp \div 4096), 128 + ((cp \div 64) % 64), 128 + (cp % 64)>>
    ELSE <<240 + (cp \div 262144), 128 + ((cp \div 4096) % 64),
           128 + ((cp \div 64) % 64), 128 + (cp % 64)>>

RECURSIVE percentEncode(_)
percentEncode(octets) ==
    IF octets = <<>> THEN <<>>
    ELSE <<37, hexChar(Head(octets) \div 16), hexChar(Head(octets) % 16)>>
             \o percentEncode(Tail(octets))

codePoint(lead, trail) == 65536 + (lead - 55296) * 1024 + (trail - 56320)

\* encodeURI(str) from index k (0-based): the text, or a URIError.
RECURSIVE encodeURIFrom(_, _)
encodeURIMore(head, rest) == [threw |-> rest.threw, text |-> head \o rest.text]

encodeURIFrom(str, k) ==
    IF k >= Len(str) THEN [threw |-> FALSE, text |-> <<>>]
    ELSE IF At(str, k) \in uriReserved \cup uriUnescaped
    THEN encodeURIMore(<<At(str, k)>>, encodeURIFrom(str, k + 1))
    ELSE IF isTrail(At(str, k)) THEN [threw |-> TRUE, text |-> <<>>]
    ELSE IF isLead(At(str, k))
    THEN IF k + 1 < Len(str) /\ isTrail(At(str, k + 1))
         THEN encodeURIMore(percentEncode(utf8(codePoint(At(str, k), At(str, k + 1)))),
                            encodeURIFrom(str, k + 2))
         ELSE [threw |-> TRUE, text |-> <<>>]
    ELSE encodeURIMore(percentEncode(utf8(At(str, k))), encodeURIFrom(str, k + 1))

encodeURI(str) == encodeURIFrom(str, 0)

\* The octet written %XX at index k, or -1.
octetAt(str, k) ==
    IF /\ k + 2 < Len(str) /\ At(str, k) = 37
       /\ hexValue(At(str, k + 1)) >= 0 /\ hexValue(At(str, k + 2)) >= 0
    THEN hexValue(At(str, k + 1)) * 16 + hexValue(At(str, k + 2))
    ELSE -1

\* The number of octets of the UTF-8 sequence that octet b starts (0: none).
utf8Length(b) ==
    IF b < 128 THEN 1
    ELSE IF b >= 194 /\ b <= 223 THEN 2
    ELSE IF b >= 224 /\ b <= 239 THEN 3
    ELSE IF b >= 240 /\ b <= 244 THEN 4
    ELSE 0

isContinuation(b) == b >= 128 /\ b <= 191

\* The code point of a well-formed UTF-8 sequence, or -1.
utf8Decode(o) ==
    IF \E j \in 2..Len(o) : ~isContinuation(o[j]) THEN -1
    ELSE IF Len(o) = 2 THEN (o[1] - 192) * 64 + (o[2] - 128)
    ELSE IF Len(o) = 3
    THEN IF \/ (o[1] = 224 /\ o[2] < 160)
            \/ (o[1] = 237 /\ o[2] > 159)
         THEN -1
         ELSE (o[1] - 224) * 4096 + (o[2] - 128) * 64 + (o[3] - 128)
    ELSE IF \/ (o[1] = 240 /\ o[2] < 144)
            \/ (o[1] = 244 /\ o[2] > 143)
    THEN -1
    ELSE (o[1] - 240) * 262144 + (o[2] - 128) * 4096
             + (o[3] - 128) * 64 + (o[4] - 128)

utf16(cp) ==
    IF cp < 65536 THEN <<cp>>
    ELSE <<55296 + (cp - 65536) \div 1024, 56320 + ((cp - 65536) % 1024)>>

\* decodeURI(str) from index k (0-based): the text, or a URIError.
RECURSIVE decodeURIFrom(_, _)
decodeURIMore(head, rest) == [threw |-> rest.threw, text |-> head \o rest.text]

decodeURIEscape(str, k, n) ==
    IF n = 0 \/ k + 3 * n > Len(str) \/ \E j \in 1..(n - 1) : octetAt(str, k + 3 * j) < 0
    THEN [threw |-> TRUE, text |-> <<>>]
    ELSE IF n = 1
    THEN IF octetAt(str, k) \in uriReserved
         THEN decodeURIMore(substring(str, k, k + 3), decodeURIFrom(str, k + 3))
         ELSE decodeURIMore(<<octetAt(str, k)>>, decodeURIFrom(str, k + 3))
    ELSE IF utf8Decode([j \in 1..n |-> octetAt(str, k + 3 * (j - 1))]) < 0
    THEN [threw |-> TRUE, text |-> <<>>]
    ELSE decodeURIMore(utf16(utf8Decode([j \in 1..n |-> octetAt(str, k + 3 * (j - 1))])),
                       decodeURIFrom(str, k + 3 * n))

decodeURIFrom(str, k) ==
    IF k >= Len(str) THEN [threw |-> FALSE, text |-> <<>>]
    ELSE IF At(str, k) # 37 THEN decodeURIMore(<<At(str, k)>>, decodeURIFrom(str, k + 1))
    ELSE IF octetAt(str, k) < 0 THEN [threw |-> TRUE, text |-> <<>>]
    ELSE decodeURIEscape(str, k, utf8Length(octetAt(str, k)))

decodeURI(str) == decodeURIFrom(str, 0)

\* str.replace(/%20/g, ' ')
RECURSIVE replacePercent20(_)
replacePercent20(str) ==
    IF Len(str) < 3 THEN str
    ELSE IF SubSeq(str, 1, 3) = <<37, 50, 48>>
    THEN <<32>> \o replacePercent20(SubSeq(str, 4, Len(str)))
    ELSE <<Head(str)>> \o replacePercent20(Tail(str))

\* String(n) of an integer
RECURSIVE toString(_)
toString(n) ==
    IF n < 0 THEN <<45>> \o toString(0 - n)
    ELSE IF n < 10 THEN <<48 + n>>
    ELSE toString(n \div 10) \o <<48 + (n % 10)>>

\* list.join('\t')
RECURSIVE joinTab(_)
joinTab(list) ==
    IF list = <<>> THEN <<>>
    ELSE IF Len(list) = 1 THEN list[1]
    ELSE list[1] \o <<9>> \o joinTab(Tail(list))

\* One element of the array text of diff_toDelta.
deltaToken(d) ==
    IF d.op = INSERT THEN <<43>> \o encodeURI(d.text).text
    ELSE IF d.op = DELETE THEN <<45>> \o toString(Len(d.text))
    ELSE <<61>> \o toString(Len(d.text))

\* diff_toDelta(diffs): the delta, or the URIError of encodeURI.
diff_toDelta(diffs) ==
    IF \E x \in 1..Len(diffs) : diffs[x].op = INSERT /\ encodeURI(diffs[x].text).threw
    THEN [threw |-> TRUE, delta |-> <<>>]
    ELSE [threw |-> FALSE,
          delta |-> replacePercent20(joinTab([x \in 1..Len(diffs) |-> deltaToken(diffs[x])]))]

\* delta.split(/\t/g)
RECURSIVE splitTab(_)
splitTab(str) ==
    IF indexOfFrom(str, <<9>>, 0) = -1 THEN <<str>>
    ELSE <<substring(str, 0, indexOfFrom(str, <<9>>, 0))>>
             \o splitTab(substringFrom(str, indexOfFrom(str, <<9>>, 0) + 1))

\* parseInt(str, 10): white space, a sign, decimal digits; NaN is NULL.
strWhiteSpace == {9, 10, 11, 12, 13, 32, 160, 65279}
isDigit(u) == u >= 48 /\ u <= 57

RECURSIVE parseDigits(_, _, _)
parseDigits(str, k, n) ==
    IF k < Len(str) /\ isDigit(At(str, k))
    THEN parseDigits(str, k + 1, n * 10 + (At(str, k) - 48))
    ELSE n

RECURSIVE parseIntFrom(_, _)
parseIntFrom(str, k) ==
    IF k >= Len(str) THEN NULL
    ELSE IF At(str, k) \in strWhiteSpace THEN parseIntFrom(str, k + 1)
    ELSE IF At(str, k) \in {43, 45}
    THEN IF k + 1 < Len(str) /\ isDigit(At(str, k + 1))
         THEN Some((IF At(str, k) = 45 THEN -1 ELSE 1) * parseDigits(str, k + 1, 0))
         ELSE NULL
    ELSE IF isDigit(At(str, k)) THEN Some(parseDigits(str, k, 0))
    ELSE NULL

parseInt(str) == parseIntFrom(str, 0)

\* One token of diff_fromDelta, st = [diffs, pointer, threw].
fromDeltaCopy(st, text1, op, n) ==
    [st EXCEPT !.diffs = Append(@, Diff(op, substring(text1, st.pointer, st.pointer + n))),
               !.pointer = @ + n]

fromDeltaCount(st, text1, op, n) ==
    IF n = NULL \/ n[1] < 0 THEN [st EXCEPT !.threw = TRUE]
    ELSE fromDeltaCopy(st, text1, op, n[1])

fromDeltaToken(st, text1, token) ==
    IF charAt(token, 0) = <<43>>
    THEN IF decodeURI(substringFrom(token, 1)).threw THEN [st EXCEPT !.threw = TRUE]
         ELSE [st EXCEPT !.diffs = Append(@, Diff(INSERT, decodeURI(substringFrom(token, 1)).text))]
    ELSE IF charAt(token, 0) = <<45>>
    THEN fromDeltaCount(st, text1, DELETE, parseInt(substringFrom(token, 1)))
    ELSE IF charAt(token, 0) = <<61>>
    THEN fromDeltaCount(st, text1, EQUAL, parseInt(substringFrom(token, 1)))
    ELSE IF token # <<>> THEN [st EXCEPT !.threw = TRUE]
    ELSE st

RECURSIVE fromDeltaTokens(_, _, _)
fromDeltaTokens(st, text1, tokens) ==
    IF st.threw \/ tokens = <<>> THEN st
    ELSE fromDeltaTokens(fromDeltaToken(st, text1, Head(tokens)), text1, Tail(tokens))

fromDeltaEnd(st, text1) ==
    IF st.threw \/ st.pointer # Len(text1)
    THEN [threw |-> TRUE, diffs |-> <<>>]
    ELSE [threw |-> FALSE, diffs |-> st.diffs]

\* diff_fromDelta(text1, delta): the diffs, or an Error.
diff_fromDelta(text1, delta) ==
    fromDeltaEnd(fromDeltaTokens([diffs |-> <<>>, pointer |-> 0, threw |-> FALSE],
                                 text1, splitTab(delta)),
                 text1)


-----------------------------------------------------------------------------
(* Specification SpecDelta: diff_toDelta and diff_fromDelta *)

\* Most code units of a record's text, most records of a diff, most code
\* units of a delta given to diff_fromDelta on its own.
MaxDeltaLen == 2
MaxDeltaDiffs == 2
MaxDeltaText == 3

\* a, space, %, tab, e acute, and the two halves of U+1F4AB
DeltaAlphabet == {97, 32, 37, 9, 233, 55357, 56491}
DeltaDiffs ==
    {Diff(op, text) : op \in {DELETE, INSERT, EQUAL},
                      text \in Strings(DeltaAlphabet, MaxDeltaLen)}
DeltaInputs == UNION {[1..k -> DeltaDiffs] : k \in 0..MaxDeltaDiffs}
\* + - = 1 % tab a
DeltaTexts == Strings({43, 45, 61, 49, 37, 9, 97}, MaxDeltaText)

DiffToDelta ==
    /\ call = Idle
    /\ \E diffs \in DeltaInputs :
          /\ call' = [op |-> "toDelta", diffs |-> diffs,
                      threw |-> diff_toDelta(diffs).threw]
          /\ ret' = diff_toDelta(diffs).delta
    /\ UNCHANGED <<Diff_Timeout, now, Differ_deadline, segmentCodec, heap>>

FromDeltaReturns(text1, delta, diffs, r) ==
    /\ call' = [op |-> "fromDelta", text1 |-> text1, delta |-> delta,
                diffs |-> diffs, threw |-> r.threw]
    /\ ret' = r.diffs

\* The delta of the diffs goes back through diff_fromDelta with their source
\* text.
DiffFromDelta ==
    /\ call.op = "toDelta" /\ ~call.threw
    /\ FromDeltaReturns(diff_text1(call.diffs), ret, Some(call.diffs),
           diff_fromDelta(diff_text1(call.diffs), ret))
    /\ UNCHANGED <<Diff_Timeout, now, Differ_deadline, segmentCodec, heap>>

\* diff_fromDelta on any delta.
DiffFromDeltaText ==
    /\ call = Idle
    /\ \E text1 \in {<<>>, <<97>>}, delta \in DeltaTexts :
          FromDeltaReturns(text1, delta, NULL, diff_fromDelta(text1, delta))
    /\ UNCHANGED <<Diff_Timeout, now, Differ_deadline, segmentCodec, heap>>

NextDelta ==
    \/ DiffToDelta
    \/ DiffFromDelta
    \/ DiffFromDeltaText
    \/ Return

SpecDelta == Init /\ [][NextDelta]_vars

\* C12: for every diff whose source text is text1,
\* diff_fromDelta(text1, diff_toDelta(diffs)) returns the diff, record by
\* record.
C12_DeltaRoundTrip ==
    /\ call.op = "toDelta" => ~call.threw
    /\ (call.op = "fromDelta" /\ call.diffs # NULL)
           => ~call.threw /\ ret = call.diffs[1]


-----------------------------------------------------------------------------
(* Patch.toString, patch_toText and patch_fromText *)

\* new Patch()
Patch == [diffs |-> <<>>, start1 |-> NULL, start2 |-> NULL, length1 |-> 0, length2 |-> 0]

\* start + ',0' of a start that may be null
startString(start) == IF start = NULL THEN <<110, 117, 108, 108>> ELSE toString(start[1])

\* start ?? 0
startOrZero(start) == IF start = NULL THEN 0 ELSE start[1]

\* A header that prints the length in every case.
patchCoordsLong(start, length) ==
    IF length = 0 THEN startString(start) \o <<44, 48>>
    ELSE toString(startOrZero(start) + 1) \o <<44>> \o toString(length)

\* coords1, coords2 of Patch.toString
patchCoords(start, length) ==
    IF length = 0 THEN startString(start) \o <<44, 48>>
    ELSE IF length = 1 THEN toString(startOrZero(start) + 1)
    ELSE toString(startOrZero(start) + 1) \o <<44>> \o toString(length)

patchHeaderLine(patch) ==
    <<64, 64, 32, 45>> \o patchCoords(patch.start1, patch.length1) \o <<32, 43>>
        \o patchCoords(patch.start2, patch.length2) \o <<32, 64, 64, 10>>

patchOp(op) == IF op = INSERT THEN <<43>> ELSE IF op = DELETE THEN <<45>> ELSE <<32>>

RECURSIVE patchBody(_, _)
patchBody(diffs, x) ==
    IF x > Len(diffs) THEN <<>>
    ELSE patchOp(diffs[x].op) \o encodeURI(diffs[x].text).text \o <<10>>
             \o patchBody(diffs, x + 1)

\* Patch.toString(): the text, or the URIError of encodeURI.
patchToString(patch) ==
    IF \E x \in 1..Len(patch.diffs) : encodeURI(patch.diffs[x].text).threw
    THEN [threw |-> TRUE, text |-> <<>>]
    ELSE [threw |-> FALSE,
          text |-> replacePercent20(patchHeaderLine(patch) \o patchBody(patch.diffs, 1))]

\* patch_toText(patches)
RECURSIVE patchTexts(_, _)
patchTexts(patches, x) ==
    IF x > Len(patches) THEN <<>>
    ELSE patchToString(patches[x]).text \o patchTexts(patches, x + 1)

patch_toText(patches) ==
    IF \E x \in 1..Len(patches) : patchToString(patches[x]).threw
    THEN [threw |-> TRUE, text |-> <<>>]
    ELSE [threw |-> FALSE, text |-> patchTexts(patches, 1)]

\* textline.split('\n')
RECURSIVE splitLines(_)
splitLines(str) ==
    IF indexOfFrom(str, <<10>>, 0) = -1 THEN <<str>>
    ELSE <<substring(str, 0, indexOfFrom(str, <<10>>, 0))>>
             \o splitLines(substringFrom(str, indexOfFrom(str, <<10>>, 0) + 1))

\* The end (0-based, exclusive) of the digits of str that start at k.
RECURSIVE digitsEnd(_, _)
digitsEnd(str, k) ==
    IF k < Len(str) /\ isDigit(At(str, k)) THEN digitsEnd(str, k + 1) ELSE k

\* ,? matched at k: the index after it.
commaEnd(str, k) == IF k < Len(str) /\ At(str, k) = 44 THEN k + 1 ELSE k

\* (\d+),?(\d*) matched at k: [ok, n, len, k], k the index after it.
headerCoords(str, k) ==
    [ok |-> digitsEnd(str, k) > k,
     n |-> substring(str, k, digitsEnd(str, k)),
     len |-> substring(str, commaEnd(str, digitsEnd(str, k)),
                       digitsEnd(str, commaEnd(str, digitsEnd(str, k)))),
     k |-> digitsEnd(str, commaEnd(str, digitsEnd(str, k)))]

\* The second half of patchHeader, the first having matched as c1.
headerSecond(str, c1) ==
    IF ~c1.ok \/ substring(str, c1.k, c1.k + 2) # <<32, 43>> THEN NULL
    ELSE IF /\ headerCoords(str, c1.k + 2).ok
            /\ substringFrom(str, headerCoords(str, c1.k + 2).k) = <<32, 64, 64>>
    THEN Some(<<c1.n, c1.len, headerCoords(str, c1.k + 2).n,
                headerCoords(str, c1.k + 2).len>>)
    ELSE NULL

\* line.match(/^@@ -(\d+),?(\d*) \+(\d+),?(\d*) @@$/): the groups, or null.
patchHeader(str) ==
    IF substring(str, 0, 4) # <<64, 64, 32, 45>> THEN NULL
    ELSE headerSecond(str, headerCoords(str, 4))

\* start and length of one side of a header.
headerStart(n, len) ==
    IF len = <<48>> THEN parseInt(n) ELSE Some(parseInt(n)[1] - 1)
headerLength(len) ==
    IF len = <<>> THEN 1 ELSE IF len = <<48>> THEN 0 ELSE parseInt(len)[1]

headerPatch(m) ==
    [diffs |-> <<>>,
     start1 |-> headerStart(m[1], m[2]), length1 |-> headerLength(m[2]),
     start2 |-> headerStart(m[3], m[4]), length2 |-> headerLength(m[4])]

\* patch.diffs.push(new Diff(op, line)) on the last patch of st.
fromTextPush(st, op, decoded) ==
    [st EXCEPT !.patches[Len(st.patches)].diffs = Append(@, Diff(op, decoded))]

\* The inner loop of patch_fromText over st = [patches, pointer, threw].
RECURSIVE fromTextBody(_, _)
fromTextLine(st, text, sign, decoded) ==
    IF decoded.threw THEN [st EXCEPT !.threw = TRUE]
    ELSE IF sign = <<45>>
    THEN fromTextBody([fromTextPush(st, DELETE, decoded.text) EXCEPT !.pointer = @ + 1], text)
    ELSE IF sign = <<43>>
    THEN fromTextBody([fromTextPush(st, INSERT, decoded.text) EXCEPT !.pointer = @ + 1], text)
    ELSE IF sign = <<32>>
    THEN fromTextBody([fromTextPush(st, EQUAL, decoded.text) EXCEPT !.pointer = @ + 1], text)
    ELSE IF sign = <<64>> THEN st
    ELSE IF sign = <<>> THEN fromTextBody([st EXCEPT !.pointer = @ + 1], text)
    ELSE [st EXCEPT !.threw = TRUE]

fromTextBody(st, text) ==
    IF st.pointer >= Len(text) THEN st
    ELSE fromTextLine(st, text, charAt(At(text, st.pointer), 0),
                      decodeURI(substringFrom(At(text, st.pointer), 1)))

\* The outer loop of patch_fromText.
RECURSIVE fromTextPatches(_, _)
fromTextPatches(st, text) ==
    IF st.threw \/ st.pointer >= Len(text) THEN st
    ELSE IF patchHeader(At(text, st.pointer)) = NULL THEN [st EXCEPT !.threw = TRUE]
    ELSE fromTextPatches(
             fromTextBody([st EXCEPT
                              !.patches = Append(@, headerPatch(patchHeader(At(text, st.pointer))[1])),
                              !.pointer = @ + 1],
                          text),
             text)

fromTextEnd(st) ==
    IF st.threw THEN [threw |-> TRUE, patches |-> <<>>]
    ELSE [threw |-> FALSE, patches |-> st.patches]

\* patch_fromText(textline): the patches, or an Error.
patch_fromText(textline) ==
    IF textline = <<>> THEN [threw |-> FALSE, patches |-> <<>>]
    ELSE fromTextEnd(fromTextPatches([patches |-> <<>>, pointer |-> 0, threw |-> FALSE],
                                     splitLines(textline)))


-----------------------------------------------------------------------------
(* Specification SpecPatchText: Patch.toString and patch_fromText *)

\* The largest start and the largest length of a patch given to toString.
MaxStart == 2
MaxLength == 3

PatchStarts == {NULL} \cup {Some(n) : n \in 0..MaxStart}
\* a, space, tab and the first half of U+1F4AB
PatchDiffs ==
    {<<>>, <<Diff(EQUAL, <<97>>)>>, <<Diff(DELETE, <<97, 32>>), Diff(INSERT, <<9>>)>>,
     <<Diff(INSERT, <<55357>>)>>}
PatchInputs ==
    [diffs : PatchDiffs, start1 : PatchStarts, start2 : PatchStarts,
     length1 : 0..MaxLength, length2 : 0..MaxLength]

\* The texts of a side of a header: a number or none, a comma or none, a
\* length or none.
SideTexts ==
    {n \o c \o len : n \in {<<>>, <<48>>, <<49>>, <<49, 50>>},
                     c \in {<<>>, <<44>>},
                     len \in {<<>>, <<48>>, <<50>>}}
\* "@@ -" side " +" side and an end: " @@", " @", " @@ "
HeaderTexts ==
    {<<64, 64, 32, 45>> \o s1 \o <<32, 43>> \o s2 \o e :
        s1 \in SideTexts, s2 \in SideTexts,
        e \in {<<32, 64, 64>>, <<32, 64>>, <<32, 64, 64, 32>>}}
\* What follows the first line: nothing, a line feed, or lines +a, -a, " a",
\* xa, +%, a second header, @.
BodyTexts ==
    {<<>>, <<10>>, <<10, 43, 97>>, <<10, 45, 97, 10>>, <<10, 32, 97>>,
     <<10, 120, 97>>, <<10, 43, 37>>, <<10, 43, 97, 10, 10, 45, 97>>,
     <<10, 64, 64, 32, 45, 49, 32, 43, 49, 32, 64, 64, 10, 43, 97>>,
     <<10, 43, 97, 10, 64>>}
PatchTextInputs ==
    {h \o b : h \in HeaderTexts, b \in BodyTexts}
        \cup {<<>>, <<10>>, <<66, 97, 100, 10, 80, 97, 116, 99, 104, 10>>}

PatchToString ==
    /\ call = Idle
    /\ \E patch \in PatchInputs :
          /\ call' = [op |-> "toString", patch |-> patch,
                      threw |-> patchToString(patch).threw]
          /\ ret' = patchToString(patch).text
    /\ UNCHANGED <<Diff_Timeout, now, Differ_deadline, segmentCodec, heap>>

PatchFromText ==
    /\ call = Idle
    /\ \E textline \in PatchTextInputs :
          /\ call' = [op |-> "fromText", textline |-> textline,
                      threw |-> patch_fromText(textline).threw]
          /\ ret' = patch_fromText(textline).patches
    /\ UNCHANGED <<Diff_Timeout, now, Differ_deadline, segmentCodec, heap>>

\* The text of a patch is parsed again.
PatchFromString ==
    /\ call.op = "toString" /\ ~call.threw
    /\ call' = [op |-> "fromText", textline |-> ret,
                threw |-> patch_fromText(ret).threw]
    /\ ret' = patch_fromText(ret).patches
    /\ UNCHANGED <<Diff_Timeout, now, Differ_deadline, segmentCodec, heap>>

NextPatchText ==
    \/ PatchToString
    \/ PatchFromText
    \/ PatchFromString
    \/ Return

SpecPatchText == Init /\ [][NextPatchText]_vars

\* The pattern of a header: "@@ -" n [, n] " +" n [, n] " @@", n a number.
IsNumber(str) == str # <<>> /\ \A k \in 1..Len(str) : isDigit(str[k])
IsSide(str) ==
    \/ IsNumber(str)
    \/ \E k \in 1..Len(str) :
          /\ str[k] = 44
          /\ IsNumber(SubSeq(str, 1, k - 1))
          /\ IsNumber(SubSeq(str, k + 1, Len(str)))
IsHeader(str) ==
    /\ Len(str) >= 10
    /\ SubSeq(str, 1, 4) = <<64, 64, 32, 45>>
    /\ SubSeq(str, Len(str) - 2, Len(str)) = <<32, 64, 64>>
    /\ \E k \in 5..(Len(str) - 4) :
          /\ SubSeq(str, k, k + 1) = <<32, 43>>
          /\ IsSide(SubSeq(str, 5, k - 1))
          /\ IsSide(SubSeq(str, k + 2, Len(str) - 3))

\* A line in header position (the first line, and every line that ends a
\* body by its @) is not a header, or a body line begins with a character
\* other than + - space @.
IsBadPatchText(text) ==
    \E p \in 1..Len(text) :
        \/ (p = 1 \/ charAt(text[p], 0) = <<64>>) /\ ~IsHeader(text[p])
        \/ /\ p > 1
           /\ text[p] # <<>>
           /\ text[p][1] \notin {43, 45, 32, 64}

\* C13: patch_fromText raises a format error, and returns no patches,
\* whenever a line in header position does not match the pattern
\* "@@ -n[,n] +n[,n] @@" or a body line begins with a character other than
\* +, -, space or @.
C13_BadTextThrows ==
    (call.op = "fromText" /\ call.textline # <<>>
        /\ IsBadPatchText(splitLines(call.textline)))
        => call.threw /\ ret = <<>>

\* The first line of a text, without its line feed.
firstLine(str) == substring(str, 0, indexOfFrom(str, <<10>>, 0))

\* A side of a header as the claim has it: the start plus one, then nothing
\* for the length 1, and a comma and the length otherwise.
SideOneBased(start, length) ==
    toString(startOrZero(start) + 1)
        \o (IF length = 1 THEN <<>> ELSE <<44>> \o toString(length))

\* A side of a header whose length 0 goes with the stored start itself.
SideOfLength(start, length) ==
    IF length = 0 THEN startString(start) \o <<44, 48>>
    ELSE SideOneBased(start, length)

-----------------------------------------------------------------------------
(* match_main and match_bitap_ *)

\* 0.5, as numerator and denominator
Match_Threshold == <<1, 2>>
Match_Distance == 1000
\* 0.5, as numerator and denominator
Patch_DeleteThreshold == <<1, 2>>
Patch_Margin == 4
Match_MaxBits == 32

\* A 32-bit integer is the set of its bits that are 1 (bit 0 the lowest):
\* & is the intersection, | the union, and << 1 moves every bit up and drops
\* bit 31.
IntBits == 32
shiftLeft1(bits) == {b + 1 : b \in {a \in bits : a + 1 < IntBits}}
\* 1 << n: only the five low bits of n count
oneShifted(n) == {n % IntBits}
\* (1 << d) - 1
onesBelow(d) == IF d % IntBits = 0 THEN {} ELSE 0..((d % IntBits) - 1)

abs(n) == IF n < 0 THEN 0 - n ELSE n

\* match_alphabet_(pattern)[ch]: undefined reads as 0 in the bit operations.
match_alphabet_(pattern, ch) ==
    IF ch = <<>> THEN {}
    ELSE UNION {oneShifted(Len(pattern) - i - 1) :
                   i \in {k \in 0..(Len(pattern) - 1) : At(pattern, k) = ch[1]}}

\* match_bitapScore_(e, x) times pattern.length * Match_Distance, so that the
\* scores of one call are compared as integers; cut off at 1 when
\* Match_Distance is 0.
match_bitapScore_(pattern, loc, e, x) ==
    IF Match_Distance = 0
    THEN IF abs(loc - x) # 0 THEN Len(pattern) ELSE e
    ELSE e * Match_Distance + abs(loc - x) * Len(pattern)

\* Match_Threshold on the scale of match_bitapScore_.
scoreOfThreshold(pattern) ==
    IF Match_Distance = 0 THEN (Match_Threshold[1] * Len(pattern)) \div Match_Threshold[2]
    ELSE (Match_Threshold[1] * Len(pattern) * Match_Distance) \div Match_Threshold[2]

\* The speedup: the threshold after looking for exact matches near loc.
bitapThresholdBack(text, pattern, loc, threshold) ==
    IF lastIndexOfFrom(text, pattern, loc + Len(pattern)) # -1
    THEN Min(match_bitapScore_(pattern, loc, 0,
                 lastIndexOfFrom(text, pattern, loc + Len(pattern))), threshold)
    ELSE threshold

bitapThreshold(text, pattern, loc) ==
    IF indexOfFrom(text, pattern, loc) # -1
    THEN bitapThresholdBack(text, pattern, loc,
             Min(match_bitapScore_(pattern, loc, 0, indexOfFrom(text, pattern, loc)),
                 scoreOfThreshold(pattern)))
    ELSE scoreOfThreshold(pattern)

\* The binary search of one error level over b = [min, mid, max].
RECURSIVE bitapSearch(_, _, _, _, _)
bitapSearch(pattern, loc, d, threshold, b) ==
    IF b.min < b.mid
    THEN IF match_bitapScore_(pattern, loc, d, loc + b.mid) <= threshold
         THEN bitapSearch(pattern, loc, d, threshold,
                  [min |-> b.mid, max |-> b.max,
                   mid |-> (b.max - b.mid) \div 2 + b.mid])
         ELSE bitapSearch(pattern, loc, d, threshold,
                  [min |-> b.min, max |-> b.mid,
                   mid |-> (b.mid - b.min) \div 2 + b.min])
    ELSE b

\* An element of rd or last_rd; what was never assigned reads as 0.
rdAt(rd, j) == IF j \in DOMAIN rd THEN rd[j] ELSE {}

\* rd[j] of the scan at error level d.
bitapRd(text, pattern, d, rd, last_rd, j) ==
    IF d = 0
    THEN (shiftLeft1(rdAt(rd, j + 1)) \cup {0})
             \cap match_alphabet_(pattern, charAt(text, j - 1))
    ELSE ((shiftLeft1(rdAt(rd, j + 1)) \cup {0})
              \cap match_alphabet_(pattern, charAt(text, j - 1)))
         \cup (shiftLeft1(rdAt(last_rd, j + 1) \cup rdAt(last_rd, j)) \cup {0})
         \cup rdAt(last_rd, j + 1)

\* The scan of one error level runs over
\* s = [rd, start, threshold, best_loc, done], done once the loop is left by
\* break. A match was found at j: is it better than any existing match?
bitapHit(pattern, loc, d, s, j) ==
    IF match_bitapScore_(pattern, loc, d, j - 1) <= s.threshold
    THEN IF j - 1 > loc
         THEN [s EXCEPT !.threshold = match_bitapScore_(pattern, loc, d, j - 1),
                        !.best_loc = j - 1,
                        !.start = Max(1, 2 * loc - (j - 1))]
         ELSE [s EXCEPT !.threshold = match_bitapScore_(pattern, loc, d, j - 1),
                        !.best_loc = j - 1,
                        !.done = TRUE]
    ELSE s

bitapScanned(pattern, loc, d, s, j) ==
    IF s.rd[j] \cap oneShifted(Len(pattern) - 1) # {}
    THEN bitapHit(pattern, loc, d, s, j)
    ELSE s

\* One iteration of the scan, at j; none once the loop has ended.
bitapStep(text, pattern, loc, d, last_rd, s, j) ==
    IF s.done \/ j < s.start THEN s
    ELSE bitapScanned(pattern, loc, d,
             [s EXCEPT !.rd = Put(@, j, bitapRd(text, pattern, d, s.rd, last_rd, j))],
             j)

\* The iterations from j = hi down to j = lo, as those of the upper half
\* followed by those of the lower half.
RECURSIVE bitapScanRange(_, _, _, _, _, _, _, _)
bitapScanRange(text, pattern, loc, d, last_rd, s, hi, lo) ==
    IF s.done \/ hi < lo THEN s
    ELSE IF hi = lo THEN bitapStep(text, pattern, loc, d, last_rd, s, hi)
    ELSE bitapScanRange(text, pattern, loc, d, last_rd,
             bitapScanRange(text, pattern, loc, d, last_rd, s, hi, (hi + lo) \div 2 + 1),
             (hi + lo) \div 2, lo)

\* The scan from j down to start (start is never below 1).
bitapScan(text, pattern, loc, d, last_rd, s, j) ==
    bitapScanRange(text, pattern, loc, d, last_rd, s, j, 1)

\* The error levels run over m = [threshold, best_loc, bin_max, last_rd, done],
\* done once the loop is left by break.
\* No hope for a (better) match at greater error levels?
bitapLevelEnd(pattern, loc, d, mid, s) ==
    [threshold |-> s.threshold, best_loc |-> s.best_loc, bin_max |-> mid,
     last_rd |-> s.rd,
     done |-> match_bitapScore_(pattern, loc, d + 1, loc) > s.threshold]

bitapLevel(text, pattern, loc, d, m, mid, finish) ==
    bitapLevelEnd(pattern, loc, d, mid,
        bitapScan(text, pattern, loc, d, m.last_rd,
            [rd |-> (finish + 1) :> onesBelow(d), start |-> Max(1, loc - mid + 1),
             threshold |-> m.threshold, best_loc |-> m.best_loc, done |-> FALSE],
            finish))

bitapLevelAt(text, pattern, loc, d, m, mid) ==
    bitapLevel(text, pattern, loc, d, m, mid,
        Min(loc + mid, Len(text)) + Len(pattern))

\* One error level, d; none once the loop has ended.
bitapLevelStep(text, pattern, loc, d, m) ==
    IF m.done THEN m
    ELSE bitapLevelAt(text, pattern, loc, d, m,
             bitapSearch(pattern, loc, d, m.threshold,
                 [min |-> 0, mid |-> m.bin_max, max |-> m.bin_max]).mid)

\* The error levels from d = lo to d = hi, as those of the lower half followed
\* by those of the upper half.
RECURSIVE bitapLevelRange(_, _, _, _, _, _)
bitapLevelRange(text, pattern, loc, m, lo, hi) ==
    IF m.done \/ hi < lo THEN m
    ELSE IF hi = lo THEN bitapLevelStep(text, pattern, loc, lo, m)
    ELSE bitapLevelRange(text, pattern, loc,
             bitapLevelRange(text, pattern, loc, m, lo, (lo + hi) \div 2),
             (lo + hi) \div 2 + 1, hi)

\* The loop over the error levels d = 0 .. pattern.length - 1: best_loc.
bitapLevels(text, pattern, loc, m) ==
    bitapLevelRange(text, pattern, loc, m, 0, Len(pattern) - 1).best_loc

\* match_bitap_(text, pattern, loc): the best location, -1 for none, NULL
\* for the Error of a pattern too long.
match_bitap_(text, pattern, loc) ==
    IF Len(pattern) > Match_MaxBits THEN NULL
    ELSE Some(bitapLevels(text, pattern, loc,
                  [threshold |-> bitapThreshold(text, pattern, loc), best_loc |-> -1,
                   bin_max |-> Len(pattern) + Len(text), last_rd |-> <<>>,
                   done |-> FALSE]))

\* match_main(text, pattern, loc)
matchAt(text, pattern, loc) ==
    IF text = pattern THEN Some(0)
    ELSE IF text = <<>> THEN Some(-1)
    ELSE IF substring(text, loc, loc + Len(pattern)) = pattern THEN Some(loc)
    ELSE match_bitap_(text, pattern, loc)

match_main(text, pattern, loc) == matchAt(text, pattern, Max(0, Min(loc, Len(text))))


-----------------------------------------------------------------------------
(* Patch, Diff and Array objects by reference; patch_deepCopy,
   patch_addPadding and patch_splitMax on them *)

\* heap[id] is the object of reference id. A call on the heap returns
\* [h, at]: the heap afterwards and the reference it yields.
PatchObject(diffs, start1, start2, length1, length2) ==
    [kind |-> "Patch", diffs |-> diffs, start1 |-> start1, start2 |-> start2,
     length1 |-> length1, length2 |-> length2]
DiffObject(op, text) == [kind |-> "Diff", op |-> op, text |-> text]
ArrayObject(items) == [kind |-> "Array", items |-> items]

alloc(h, object) == [h |-> Append(h, object), at |-> Len(h) + 1]

\* The values behind the references: an array of Diff objects, a Patch, an
\* array of Patch objects.
diffsAt(h, arr) ==
    [y \in 1..Len(h[arr].items) |->
        Diff(h[h[arr].items[y]].op, h[h[arr].items[y]].text)]
patchAt(h, p) ==
    [diffs |-> diffsAt(h, h[p].diffs), start1 |-> h[p].start1, start2 |-> h[p].start2,
     length1 |-> h[p].length1, length2 |-> h[p].length2]
patchesAt(h, arr) == [x \in 1..Len(h[arr].items) |-> patchAt(h, h[arr].items[x])]

\* An array of the same Diff objects.
newDiffsShared(h, arr) == alloc(h, ArrayObject(h[arr].items))

\* A new array of new Diff objects with the op and text of those of arr.
newDiffs(h, arr) ==
    alloc(h \o [y \in 1..Len(h[arr].items) |->
                   DiffObject(h[h[arr].items[y]].op, h[h[arr].items[y]].text)],
          ArrayObject([y \in 1..Len(h[arr].items) |-> Len(h) + y]))

\* One iteration of patch_deepCopy: the copy of patch p, its diffs copied as r.
copyPatch(h, p, r) ==
    alloc(r.h, PatchObject(r.at, h[p].start1, h[p].start2, h[p].length1, h[p].length2))

RECURSIVE deepCopyFrom(_, _, _, _)
deepCopyNext(patches, x, copies, r) ==
    deepCopyFrom(r.h, patches, x + 1, Append(copies, r.at))

deepCopyFrom(h, patches, x, copies) ==
    IF x >= Len(h[patches].items) THEN alloc(h, ArrayObject(copies))
    ELSE deepCopyNext(patches, x, copies,
             copyPatch(h, At(h[patches].items, x),
                 newDiffs(h, h[At(h[patches].items, x)].diffs)))

\* patch_deepCopy(patches)
patch_deepCopy(h, patches) == deepCopyFrom(h, patches, 0, <<>>)

nullPadding == [x \in 1..Patch_Margin |-> x]

\* Bump all the patches forward.
RECURSIVE padBump(_, _, _)
padBump(h, patches, x) ==
    IF x >= Len(h[patches].items) THEN h
    ELSE padBump([h EXCEPT
                     ![At(h[patches].items, x)].start1 = Some(startOrZero(@) + Patch_Margin),
                     ![At(h[patches].items, x)].start2 = Some(startOrZero(@) + Patch_Margin)],
                 patches, x + 1)

\* start1 and start2 of p go back by back, length1 and length2 grow by more.
padMove(h, p, back, more) ==
    [h EXCEPT ![p].start1 = Some(startOrZero(@) - back),
              ![p].start2 = Some(startOrZero(@) - back),
              ![p].length1 = @ + more,
              ![p].length2 = @ + more]

\* diffs.unshift(new Diff(DiffOperation.Equal, nullPadding)), the Diff being r
padUnshift(r, diffs) == [r.h EXCEPT ![diffs].items = <<r.at>> \o @]
\* diffs.push(new Diff(...)), the Diff being r
padPush(r, diffs) == [r.h EXCEPT ![diffs].items = Append(@, r.at)]

\* Add some padding on start of first diff.
padFirst(h, p, diffs) ==
    IF h[diffs].items = <<>> \/ h[h[diffs].items[1]].op # EQUAL
    THEN padMove(padUnshift(alloc(h, DiffObject(EQUAL, nullPadding)), diffs),
                 p, Patch_Margin, Patch_Margin)
    ELSE IF Patch_Margin > Len(h[h[diffs].items[1]].text)
    THEN padMove([h EXCEPT ![h[diffs].items[1]].text =
                               substringFrom(nullPadding, Len(@)) \o @],
                 p,
                 Patch_Margin - Len(h[h[diffs].items[1]].text),
                 Patch_Margin - Len(h[h[diffs].items[1]].text))
    ELSE h

\* Add some padding on end of last diff.
padLast(h, p, diffs) ==
    IF h[diffs].items = <<>> \/ h[h[diffs].items[Len(h[diffs].items)]].op # EQUAL
    THEN padMove(padPush(alloc(h, DiffObject(EQUAL, nullPadding)), diffs),
                 p, 0, Patch_Margin)
    ELSE IF Patch_Margin > Len(h[h[diffs].items[Len(h[diffs].items)]].text)
    THEN padMove([h EXCEPT ![h[diffs].items[Len(h[diffs].items)]].text =
                               @ \o substring(nullPadding, 0, Patch_Margin - Len(@))],
                 p, 0,
                 Patch_Margin - Len(h[h[diffs].items[Len(h[diffs].items)]].text))
    ELSE h

padFirstOf(h, patches) ==
    padFirst(h, h[patches].items[1], h[h[patches].items[1]].diffs)

padLastOf(h, patches) ==
    padLast(h, h[patches].items[Len(h[patches].items)],
            h[h[patches].items[Len(h[patches].items)]].diffs)

\* patch_addPadding(patches), patches not empty: the heap afterwards (the
\* string returned is nullPadding).
patch_addPadding(h, patches) == padLastOf(padFirstOf(padBump(h, patches, 0), patches), patches)


\* The caller's objects: new Diff, new Patch and array objects that hold the
\* values given.
storeDiffs(h, diffs) ==
    alloc(h \o [y \in 1..Len(diffs) |-> DiffObject(diffs[y].op, diffs[y].text)],
          ArrayObject([y \in 1..Len(diffs) |-> Len(h) + y]))

storePatch(patch, r) ==
    alloc(r.h, PatchObject(r.at, patch.start1, patch.start2, patch.length1, patch.length2))

RECURSIVE storePatchesFrom(_, _, _, _)
storePatchesNext(patches, x, ids, r) ==
    storePatchesFrom(r.h, patches, x + 1, Append(ids, r.at))

storePatchesFrom(h, patches, x, ids) ==
    IF x > Len(patches) THEN alloc(h, ArrayObject(ids))
    ELSE storePatchesNext(patches, x, ids,
             storePatch(patches[x], storeDiffs(h, patches[x].diffs)))

storePatches(h, patches) == storePatchesFrom(h, patches, 1, <<>>)

\* array.splice(x, 1) and array.splice(x, 0, item), x 0-based
spliceOut(items, x) == SubSeq(items, 1, x) \o SubSeq(items, x + 2, Len(items))
spliceIn(items, x, item) == SubSeq(items, 1, x) \o <<item>> \o SubSeq(items, x + 1, Len(items))

\* patch_splitMax: the inner while loop over
\* t = [h, patch, empty, start1, start2], bigpatch being big.
RECURSIVE splitFill(_, _)

\* Insertions are harmless: the Diff object moves from bigpatch to patch.
splitInsert(t, big, first) ==
    [t EXCEPT !.h = [@ EXCEPT ![t.patch].length2 = @ + Len(t.h[first].text),
                              ![t.h[t.patch].diffs].items = Append(@, first),
                              ![t.h[big].diffs].items = Tail(@)],
              !.start2 = Some(startOrZero(@) + Len(t.h[first].text)),
              !.empty = FALSE]

\* A large deletion passes in one chunk, as the new Diff r.
splitLarge(t, big, first, r) ==
    [t EXCEPT !.h = [r.h EXCEPT ![t.patch].length1 = @ + Len(t.h[first].text),
                                ![t.h[t.patch].diffs].items = Append(@, r.at),
                                ![t.h[big].diffs].items = Tail(@)],
              !.start1 = Some(startOrZero(@) + Len(t.h[first].text)),
              !.empty = FALSE]

\* What is left of the first Diff of bigpatch once diff_text is taken.
splitTaken(h, big, first, diff_text) ==
    IF diff_text = h[first].text
    THEN [h EXCEPT ![h[big].diffs].items = Tail(@)]
    ELSE [h EXCEPT ![first].text = substringFrom(@, Len(diff_text))]

\* A deletion or an equality: only diff_text of it is taken, as the new Diff r.
splitTake(t, big, first, diff_text, r) ==
    [t EXCEPT !.h = splitTaken(
                        [r.h EXCEPT ![t.patch].length1 = @ + Len(diff_text),
                                    ![t.patch].length2 =
                                        IF t.h[first].op = EQUAL THEN @ + Len(diff_text) ELSE @,
                                    ![t.h[t.patch].diffs].items = Append(@, r.at)],
                        big, first, diff_text),
              !.start1 = Some(startOrZero(@) + Len(diff_text)),
              !.start2 = IF t.h[first].op = EQUAL
                         THEN Some(startOrZero(@) + Len(diff_text)) ELSE @,
              !.empty = IF t.h[first].op = EQUAL THEN @ ELSE FALSE]

splitTakeText(t, big, first, diff_text) ==
    splitTake(t, big, first, diff_text, alloc(t.h, DiffObject(t.h[first].op, diff_text)))

splitFirstWhole(t, big, first) ==
    IF t.h[first].op = INSERT THEN splitInsert(t, big, first)
    ELSE IF /\ t.h[first].op = DELETE
            /\ Len(t.h[t.h[t.patch].diffs].items) = 1
            /\ t.h[t.h[t.h[t.patch].diffs].items[1]].op = EQUAL
            /\ Len(t.h[first].text) > 2 * Match_MaxBits
    THEN splitLarge(t, big, first, alloc(t.h, DiffObject(DELETE, t.h[first].text)))
    ELSE splitTakeText(t, big, first, t.h[first].text)

splitFirst(t, big, first) ==
    IF t.h[first].op = INSERT THEN splitInsert(t, big, first)
    ELSE IF /\ t.h[first].op = DELETE
            /\ Len(t.h[t.h[t.patch].diffs].items) = 1
            /\ t.h[t.h[t.h[t.patch].diffs].items[1]].op = EQUAL
            /\ Len(t.h[first].text) > 2 * Match_MaxBits
    THEN splitLarge(t, big, first, alloc(t.h, DiffObject(DELETE, t.h[first].text)))
    ELSE splitTakeText(t, big, first,
             substring(t.h[first].text, 0,
                       Match_MaxBits - t.h[t.patch].length1 - Patch_Margin))

splitFill(t, big) ==
    IF /\ t.h[t.h[big].diffs].items # <<>>
       /\ t.h[t.patch].length1 < Match_MaxBits - Patch_Margin
    THEN splitFill(splitFirst(t, big, t.h[t.h[big].diffs].items[1]), big)
    ELSE t

splitPostUncounted(h, patch, diffs, postcontext) ==
    IF postcontext = <<>> THEN h
    ELSE IF /\ h[diffs].items # <<>>
            /\ h[h[diffs].items[Len(h[diffs].items)]].op = EQUAL
    THEN [h EXCEPT ![patch].length1 = @ + Len(postcontext),
                   ![h[diffs].items[Len(h[diffs].items)]].text = @ \o postcontext]
    ELSE [padPush(alloc(h, DiffObject(EQUAL, postcontext)), diffs) EXCEPT
              ![patch].length1 = @ + Len(postcontext)]

\* Append the end context for this patch.
splitPost(h, patch, diffs, postcontext) ==
    IF postcontext = <<>> THEN h
    ELSE IF /\ h[diffs].items # <<>>
            /\ h[h[diffs].items[Len(h[diffs].items)]].op = EQUAL
    THEN [h EXCEPT ![patch].length1 = @ + Len(postcontext),
                   ![patch].length2 = @ + Len(postcontext),
                   ![h[diffs].items[Len(h[diffs].items)]].text = @ \o postcontext]
    ELSE [padPush(alloc(h, DiffObject(EQUAL, postcontext)), diffs) EXCEPT
              ![patch].length1 = @ + Len(postcontext),
              ![patch].length2 = @ + Len(postcontext)]

\* The new patch of one iteration: new Patch() with its starts, and the
\* precontext when there is one.
splitPatchPre(r, precontext) ==
    IF precontext = <<>> THEN r
    ELSE [h |-> [padPush(alloc(r.h, DiffObject(EQUAL, precontext)), r.h[r.at].diffs) EXCEPT
                    ![r.at].length1 = Len(precontext),
                    ![r.at].length2 = Len(precontext)],
          at |-> r.at]

splitPatchNew(s, r) ==
    splitPatchPre(
        alloc(r.h, PatchObject(r.at, Some(startOrZero(s.start1) - Len(s.precontext)),
                               Some(startOrZero(s.start2) - Len(s.precontext)), 0, 0)),
        s.precontext)

\* The outer while loop over s = [h, x, start1, start2, precontext].
RECURSIVE splitBig(_, _, _)

\* The end of one iteration, the inner loop having left t.
splitPiece(s, patches, big, t, precontext) ==
    splitBig(
        [h |-> IF t.empty
               THEN splitPost(t.h, t.patch, t.h[t.patch].diffs,
                        substring(diff_text1(diffsAt(t.h, t.h[big].diffs)), 0, Patch_Margin))
               ELSE [splitPost(t.h, t.patch, t.h[t.patch].diffs,
                         substring(diff_text1(diffsAt(t.h, t.h[big].diffs)), 0, Patch_Margin))
                        EXCEPT ![patches].items = spliceIn(@, s.x + 1, t.patch)],
         x |-> IF t.empty THEN s.x ELSE s.x + 1,
         start1 |-> t.start1, start2 |-> t.start2,
         precontext |-> substringFrom(precontext, Len(precontext) - Patch_Margin)],
        patches, big)

splitFilled(s, patches, big, t) ==
    splitPiece(s, patches, big, t, diff_text2(diffsAt(t.h, t.h[t.patch].diffs)))

splitStart(s, patches, big, r) ==
    splitFilled(s, patches, big,
        splitFill([h |-> r.h, patch |-> r.at, empty |-> TRUE,
                   start1 |-> s.start1, start2 |-> s.start2], big))

splitBig(s, patches, big) ==
    IF s.h[s.h[big].diffs].items = <<>> THEN s
    ELSE splitStart(s, patches, big, splitPatchNew(s, alloc(s.h, ArrayObject(<<>>))))

\* The for loop of patch_splitMax from x on.
RECURSIVE splitMaxFrom(_, _, _)
splitMaxNext(s, patches) == splitMaxFrom(s.h, patches, s.x + 1)

splitMaxFrom(h, patches, x) ==
    IF x >= Len(h[patches].items) THEN h
    ELSE IF h[At(h[patches].items, x)].length1 <= Match_MaxBits
    THEN splitMaxFrom(h, patches, x + 1)
    ELSE splitMaxNext(
             splitBig([h |-> [h EXCEPT ![patches].items = spliceOut(@, x)],
                       x |-> x - 1,
                       start1 |-> h[At(h[patches].items, x)].start1,
                       start2 |-> h[At(h[patches].items, x)].start2,
                       precontext |-> <<>>],
                      patches, At(h[patches].items, x)),
             patches)

\* patch_splitMax(patches): the heap afterwards.
patch_splitMax(h, patches) == splitMaxFrom(h, patches, 0)


-----------------------------------------------------------------------------
(* diff_xIndex, diff_levenshtein and patch_apply *)

\* diff_xIndex(diffs, loc): the loop from diff x (1-based) on, chars1 and
\* chars2 counted up to and including diff x.
RECURSIVE xIndexFrom(_, _, _, _, _)
xIndexStep(diffs, loc, x, chars1, chars2, last_chars1, last_chars2) ==
    IF chars1 > loc
    THEN IF diffs[x].op = DELETE THEN last_chars2
         ELSE last_chars2 + (loc - last_chars1)
    ELSE xIndexFrom(diffs, loc, x + 1, chars1, chars2)

xIndexFrom(diffs, loc, x, last_chars1, last_chars2) ==
    IF x > Len(diffs) THEN last_chars2 + (loc - last_chars1)
    ELSE xIndexStep(diffs, loc, x,
             IF diffs[x].op # INSERT THEN last_chars1 + Len(diffs[x].text) ELSE last_chars1,
             IF diffs[x].op # DELETE THEN last_chars2 + Len(diffs[x].text) ELSE last_chars2,
             last_chars1, last_chars2)

diff_xIndex(diffs, loc) == xIndexFrom(diffs, loc, 1, 0, 0)

\* diff_levenshtein(diffs): the loop from diff x (1-based) on.
RECURSIVE levenshteinFrom(_, _, _, _, _)
levenshteinFrom(diffs, x, levenshtein, insertions, deletions) ==
    IF x > Len(diffs) THEN levenshtein + Max(insertions, deletions)
    ELSE IF diffs[x].op = INSERT
    THEN levenshteinFrom(diffs, x + 1, levenshtein, insertions + Len(diffs[x].text), deletions)
    ELSE IF diffs[x].op = DELETE
    THEN levenshteinFrom(diffs, x + 1, levenshtein, insertions, deletions + Len(diffs[x].text))
    ELSE levenshteinFrom(diffs, x + 1, levenshtein + Max(insertions, deletions), 0, 0)

diff_levenshtein(diffs) == levenshteinFrom(diffs, 1, 0, 0, 0)

\* patch_apply, imperfect match: the loop over the diffs of the patch from
\* mod y (1-based) on; diffs maps the indices of text1 to those of text2.
RECURSIVE applyMods(_, _, _, _, _, _)
applyMods(text, start_loc, mods, diffs, y, index1) ==
    IF y > Len(mods) THEN text
    ELSE IF mods[y].op = INSERT
    THEN applyMods(substring(text, 0, start_loc + diff_xIndex(diffs, index1))
                       \o mods[y].text
                       \o substringFrom(text, start_loc + diff_xIndex(diffs, index1)),
                   start_loc, mods, diffs, y + 1, index1 + Len(mods[y].text))
    ELSE IF mods[y].op = DELETE
    THEN applyMods(substring(text, 0, start_loc + diff_xIndex(diffs, index1))
                       \o substringFrom(text,
                              start_loc + diff_xIndex(diffs, index1 + Len(mods[y].text))),
                   start_loc, mods, diffs, y + 1, index1)
    ELSE applyMods(text, start_loc, mods, diffs, y + 1, index1 + Len(mods[y].text))

\* The loop of patch_apply runs over a = [text, results, delta, c].
\* diff_main(text1, text2, false) has returned r.
applyImperfect(a, patch, text1, start_loc, r) ==
    IF /\ Len(text1) > Match_MaxBits
       /\ diff_levenshtein(r.diffs) * Patch_DeleteThreshold[2]
              > Patch_DeleteThreshold[1] * Len(text1)
    THEN [a EXCEPT !.results = Append(@, FALSE), !.delta = start_loc - a.expected_loc,
                   !.c = r.c]
    ELSE [a EXCEPT !.results = Append(@, TRUE), !.delta = start_loc - a.expected_loc,
                   !.c = r.c,
                   !.text = applyMods(@, start_loc, patch.diffs,
                                diff_cleanupSemanticLossless(r.diffs), 1, 0)]

applyFoundUnpatched(a, patch, text1, start_loc, text2) ==
    IF text1 = text2
    THEN [a EXCEPT !.results = Append(@, TRUE), !.delta = start_loc - a.expected_loc]
    ELSE applyImperfect(a, patch, text1, start_loc,
             diff_main(text1, text2, Some(FALSE), NULL, a.c))

\* Found a match: text2 is what the text holds there.
applyFound(a, patch, text1, start_loc, text2) ==
    IF text1 = text2
    THEN [a EXCEPT !.results = Append(@, TRUE), !.delta = start_loc - a.expected_loc,
                   !.text = substring(@, 0, start_loc) \o diff_text2(patch.diffs)
                                \o substringFrom(@, start_loc + Len(text1))]
    ELSE applyImperfect(a, patch, text1, start_loc,
             diff_main(text1, text2, Some(FALSE), NULL, a.c))

\* match_main has thrown: the Error passes through patch_apply.
applyThrew == [start_loc |-> -1, end_loc |-> -1, threw |-> TRUE]

\* match_main has returned end, or has thrown (NULL).
applyEnd(start_loc, end) ==
    IF end = NULL THEN applyThrew
    ELSE IF end[1] = -1 \/ start_loc >= end[1]
    THEN [start_loc |-> -1, end_loc |-> end[1], threw |-> FALSE]
    ELSE [start_loc |-> start_loc, end_loc |-> end[1], threw |-> FALSE]

applyStart(text, text1, expected_loc, start) ==
    IF start = NULL THEN applyThrew
    ELSE IF start[1] = -1 THEN [start_loc |-> -1, end_loc |-> -1, threw |-> FALSE]
    ELSE applyEnd(start[1],
             match_main(text, substringFrom(text1, Len(text1) - Match_MaxBits),
                        expected_loc + Len(text1) - Match_MaxBits))

applyWhole(start) ==
    IF start = NULL THEN applyThrew
    ELSE [start_loc |-> start[1], end_loc |-> -1, threw |-> FALSE]

applyLocateWhole(text, text1, expected_loc) ==
    applyWhole(match_main(text, text1, expected_loc))

applyLocate(text, text1, expected_loc) ==
    IF Len(text1) > Match_MaxBits
    THEN applyStart(text, text1, expected_loc,
             match_main(text, substring(text1, 0, Match_MaxBits), expected_loc))
    ELSE applyWhole(match_main(text, text1, expected_loc))

applyLocated(a, patch, text1, loc) ==
    IF loc.threw THEN [a EXCEPT !.threw = TRUE]
    ELSE IF loc.start_loc = -1
    THEN [a EXCEPT !.results = Append(@, FALSE),
                   !.delta = @ - (patch.length2 - patch.length1)]
    ELSE applyFound(a, patch, text1, loc.start_loc,
             IF loc.end_loc = -1
             THEN substring(a.text, loc.start_loc, loc.start_loc + Len(text1))
             ELSE substring(a.text, loc.start_loc, loc.end_loc + Match_MaxBits))

applyPatch(a, patch, text1) ==
    applyLocated(a, patch, text1, applyLocate(a.text, text1, a.expected_loc))

RECURSIVE applyFrom(_, _, _)
applyFrom(a, patches, x) ==
    IF a.threw \/ x > Len(patches) THEN a
    ELSE applyFrom(
             applyPatch([a EXCEPT !.expected_loc = startOrZero(patches[x].start2) + a.delta],
                        patches[x], diff_text1(patches[x].diffs)),
             patches, x + 1)

\* Strip the padding off.
applyDone(h, copy, a) ==
    [h |-> h, copy |-> copy, results |-> a.results, c |-> a.c, threw |-> a.threw,
     text |-> substring(a.text, Len(nullPadding), Len(a.text) - Len(nullPadding))]

\* The copy is padded and split at reference copy of h.
applyPadded(h, copy, text, c) ==
    applyDone(h, copy,
        applyFrom([text |-> nullPadding \o text \o nullPadding, results |-> <<>>,
                   delta |-> 0, expected_loc |-> 0, c |-> c, threw |-> FALSE],
                  patchesAt(h, copy), 1))

applyCopied(r, text, c) ==
    applyPadded(patch_splitMax(patch_addPadding(r.h, r.at), r.at), r.at, text, c)

\* patch_apply(patches, text) on heap h with clock c: the heap, the reference
\* of the copy it worked on, the new text, the results and the clock.
patch_apply(h, patches, text, c) ==
    IF h[patches].items = <<>>
    THEN [h |-> h, copy |-> patches, results |-> <<>>, c |-> c, threw |-> FALSE,
          text |-> text]
    ELSE applyCopied(patch_deepCopy(h, patches), text, c)


-----------------------------------------------------------------------------
(* Specification SpecPatch: patch_apply on the caller's Patch objects *)

\* The longest patch list that is enumerated.
MaxPatches == 2
\* The big deletion is MaxRepeats times 'ab': longer than Match_MaxBits.
MaxRepeats == 17

\* An insertion; a patch whose first equality is shorter than the padding; a
\* deletion that patch_splitMax splits; a patch with the starts of new Patch().
ApplyPatches ==
    {[diffs |-> <<Diff(INSERT, <<97, 98>>)>>,
      start1 |-> Some(0), start2 |-> Some(0), length1 |-> 0, length2 |-> 2],
     [diffs |-> <<Diff(EQUAL, <<97>>), Diff(INSERT, <<98>>), Diff(EQUAL, <<97>>)>>,
      start1 |-> Some(0), start2 |-> Some(0), length1 |-> 2, length2 |-> 3],
     [diffs |-> <<Diff(DELETE, Repeat(<<97, 98>>, MaxRepeats)), Diff(INSERT, <<98>>)>>,
      start1 |-> Some(0), start2 |-> Some(0), length1 |-> 2 * MaxRepeats, length2 |-> 1],
     [diffs |-> <<Diff(INSERT, <<97>>)>>,
      start1 |-> NULL, start2 |-> NULL, length1 |-> 0, length2 |-> 1]}

ApplyLists == UNION {[1..k -> ApplyPatches] : k \in 0..MaxPatches}

ApplyTexts ==
    {<<>>, <<97, 97>>, <<98, 97>>, Repeat(<<97, 98>>, MaxRepeats),
     Repeat(<<97, 98>>, MaxRepeats - 1) \o <<98, 98>>}

\* patch_apply has returned r, called on the caller's list at reference root.
PatchApplyReturns(patches, root, text, r) ==
    /\ call' = [op |-> "patch_apply", patches |-> patches, root |-> root,
                copy |-> r.copy, text |-> text, threw |-> r.threw]
    /\ ret' = [text |-> r.text, results |-> r.results]
    /\ heap' = r.h
    /\ now' = r.c.now

PatchApplyOn(patches, text, c, r) ==
    PatchApplyReturns(patches, r.at, text, patch_apply(r.h, r.at, text, c))

\* The caller builds a list of patches and calls patch_apply on it.
PatchApply ==
    /\ call = Idle
    /\ \E patches \in ApplyLists, text \in ApplyTexts, c \in Clocks(now) :
          /\ c.next <= MaxNow
          /\ PatchApplyOn(patches, text, c, storePatches(<<>>, patches))
    /\ UNCHANGED <<Diff_Timeout, Differ_deadline, segmentCodec>>

\* The caller is done with the result and with its patches.
PatchReturn ==
    /\ call # Idle
    /\ call' = Idle
    /\ ret' = <<>>
    /\ heap' = <<>>
    /\ UNCHANGED <<Diff_Timeout, now, Differ_deadline, segmentCodec>>

NextPatch == PatchApply \/ PatchReturn

SpecPatch == Init /\ [][NextPatch]_vars

\* C19: patch_apply has no side effects on its arguments. After it returns,
\* the caller's list holds the same patches as before the call (start1,
\* start2, length1, length2 and the diff records of each), although the call
\* padded and split patches.
C19_NoSideEffects ==
    call.op = "patch_apply" => patchesAt(heap, call.root) = call.patches

\* A call that padded and split: the list it worked on is longer than the
\* caller's and starts later, and the caller's list is as it was.
C19_Witness ==
    /\ call.op = "patch_apply"
    /\ call.copy # call.root
    /\ Len(heap[call.copy].items) > Len(call.patches)
    /\ patchesAt(heap, call.copy)[1].start1 # call.patches[1].start1
    /\ ret.results # <<>>
    /\ \A x \in 1..Len(ret.results) : ret.results[x]
    /\ patchesAt(heap, call.root) = call.patches


\* C7: patch_apply returns a per-patch outcome vector, one boolean for each
\* patch of the list the caller passed in, in the same order.
C7_OnePerPatch ==
    call.op = "patch_apply" => Len(ret.results) = Len(call.patches)


-----------------------------------------------------------------------------
(* The maps of a SegmentCodec *)

\* The keys of a Map.
MapKeys(map) == UNION {DOMAIN map[b] : b \in DOMAIN map}

\* C21 as stated: the two maps of a codec are inverse bijections: every code
\* allocated decodes to a segment that encodes back to it (so no two codes
\* decode to the same segment), and every segment encoded has a code that
\* decodes to it.
C21_InverseMaps ==
    segmentCodec # NULL =>
        /\ \A k \in 1..segmentCodec.n :
              /\ MapHas(segmentCodec.decoded, fromCharCode(k))
              /\ MapHas(segmentCodec.encoded,
                        MapGet(segmentCodec.decoded, fromCharCode(k)))
              /\ MapGet(segmentCodec.encoded,
                        MapGet(segmentCodec.decoded, fromCharCode(k)))
                     = fromCharCode(k)
        /\ \A segment \in MapKeys(segmentCodec.encoded) :
              /\ MapHas(segmentCodec.decoded, MapGet(segmentCodec.encoded, segment))
              /\ MapGet(segmentCodec.decoded, MapGet(segmentCodec.encoded, segment))
                     = segment


\* C22 as stated: an encode that returns leaves every code assigned before it
\* as it was, and emits every occurrence of a segment that has a code, at its
\* place in the string returned, as that code.
C22_CodesStable ==
    [][(call'.op = "encode" /\ ~call'.threw) =>
           /\ \A segment \in MapKeys(segmentCodec.encoded) :
                 /\ MapHas(segmentCodec'.encoded, segment)
                 /\ MapGet(segmentCodec'.encoded, segment)
                        = MapGet(segmentCodec.encoded, segment)
           /\ \A i \in 1..Len(call'.segments) :
                 MapHas(segmentCodec'.encoded, call'.segments[i]) =>
                     /\ i <= Len(ret')
                     /\ <<ret'[i]>> = MapGet(segmentCodec'.encoded, call'.segments[i])]_vars


-----------------------------------------------------------------------------
(* The texts of a diff across the cleanup passes *)

\* The array a cleanup pass was given on its latest run.
cleanupInput == IF call.runs = 1 THEN call.diffs ELSE call.first

\* C23: every cleanup pass (diff_cleanupMerge, diff_cleanupSemantic,
\* diff_cleanupSemanticLossless, diff_cleanupEfficiency) leaves the source text
\* (Delete and Equal texts) and the destination text (Insert and Equal texts)
\* of the diff sequence as they were.
C23_CleanupKeepsTexts ==
    call.op \in CleanupPasses =>
        /\ diff_text1(ret) = diff_text1(cleanupInput)
        /\ diff_text2(ret) = diff_text2(cleanupInput)


\* diff_cleanupSemantic has eliminated every equality of a sequence and carved
\* an overlap of a deletion and an insertion out into a new one.
C23_Witness ==
    /\ call.op = "diff_cleanupSemantic" /\ call.runs = 1
    /\ Len(call.diffs) = MaxRecords
    /\ ret = <<Diff(DELETE, <<97>>), Diff(EQUAL, <<32, 97>>), Diff(INSERT, <<32>>)>>
    /\ diff_text1(ret) = diff_text1(call.diffs)
    /\ diff_text2(ret) = diff_text2(call.diffs)


-----------------------------------------------------------------------------
(* The shape and the size of the diffs diff_main returns *)

\* C24: every diff returned by diff_main, with or without checklines and
\* whatever the deadline, has no record with empty text and no two adjacent
\* records with the same operation.
C24_Normalised ==
    call.op = "diff_main" =>
        /\ \A i \in 1..Len(ret) : ret[i].text # <<>>
        /\ \A i \in 1..(Len(ret) - 1) : ret[i].op # ret[i + 1].op


\* diff_main has returned a diff of four records in which deletions,
\* insertions and equalities alternate.
C24_Witness ==
    /\ call.op = "diff_main"
    /\ call.text1 = <<97, 98, 97, 97, 98, 98>> /\ call.text2 = <<98, 97, 97, 98, 97>>
    /\ ret = <<Diff(DELETE, <<97>>), Diff(EQUAL, <<98, 97, 97, 98>>),
               Diff(DELETE, <<98>>), Diff(INSERT, <<97>>)>>


\* Longest text diffed for its size.
MaxExactLen == 4

\* 'qHilloHelloHew' and 'xHelloHeHulloy': a pair with a half match that is not
\* part of a smallest diff.
HalfMatchPair ==
    << <<113, 72, 105, 108, 108, 111, 72, 101, 108, 108, 111, 72, 101, 119>>,
       <<120, 72, 101, 108, 108, 111, 72, 101, 72, 117, 108, 108, 111, 121>> >>

ExactPairs ==
    (Strings(Alphabet, MaxExactLen) \X Strings(Alphabet, MaxExactLen))
        \cup {HalfMatchPair}

\* A call of diff_main that leaves the deadline to Diff_Timeout.
DiffMainExact ==
    /\ call = Idle
    /\ \E p \in ExactPairs, opt_checklines \in {NULL, Some(FALSE)}, c \in Clocks(now) :
          /\ c.next <= MaxNow
          /\ DiffMainReturns(p[1], p[2], opt_checklines, NULL, c,
                 diff_main(p[1], p[2], opt_checklines, NULL, c))
    /\ UNCHANGED <<Diff_Timeout, Differ_deadline, segmentCodec, heap>>

NextExact == SetTimeout \/ DiffMainExact \/ Return

SpecExact == Init /\ [][NextExact]_vars

\* The lengths of the longest common subsequences of a prefix of a with the
\* prefixes of b, from those of the prefix one unit shorter (prev), ch being
\* the unit added; cur holds the lengths for the prefixes of b done so far.
RECURSIVE LcsRow(_, _, _, _)
LcsRow(prev, ch, b, cur) ==
    IF Len(cur) > Len(b) THEN cur
    ELSE LcsRow(prev, ch, b,
             Append(cur, IF ch = b[Len(cur)] THEN prev[Len(cur)] + 1
                         ELSE Max(prev[Len(cur) + 1], cur[Len(cur)])))

RECURSIVE LcsRows(_, _, _, _)
LcsRows(a, b, i, prev) ==
    IF i > Len(a) THEN prev[Len(b) + 1]
    ELSE LcsRows(a, b, i + 1, LcsRow(prev, a[i], b, <<0>>))

\* The length of a longest common subsequence of a and b.
LCS(a, b) == LcsRows(a, b, 1, Array([j \in 1..(Len(b) + 1) |-> 0]))

\* The total length of the Insert and Delete texts of a diff.
EditLength(diffs) ==
    Len(join(TextsOf(SelectSeq(diffs, LAMBDA d : d.op # EQUAL))))

\* C25: with Diff_Timeout = 0 and checklines false, the Insert and Delete
\* texts of the diff diff_main returns have the total length
\* len(text1) + len(text2) - 2 * LCS(text1, text2).
C25_Minimal ==
    ( /\ call.op = "diff_main" /\ Diff_Timeout = 0
      /\ call.opt_checklines = Some(FALSE) /\ call.opt_deadline = NULL ) =>
        EditLength(ret) = Len(call.text1) + Len(call.text2)
                              - 2 * LCS(call.text1, call.text2)


\* With Diff_Timeout = 0 and checklines false diff_main has diffed the pair
\* whose half match would cost four units more.
C25_Witness ==
    /\ call.op = "diff_main" /\ Diff_Timeout = 0
    /\ call.opt_checklines = Some(FALSE) /\ call.opt_deadline = NULL
    /\ <<call.text1, call.text2>> = HalfMatchPair
    /\ LCS(call.text1, call.text2) = 9
    /\ EditLength(ret) = 10


-----------------------------------------------------------------------------
(* patch_addContext_ and patch_make *)

\* The pattern of patch in text with padding units around it.
addContextPattern(patch, text, padding) ==
    substring(text, patch.start2[1] - padding, patch.start2[1] + patch.length1 + padding)

\* "If two different matches are found, increase the pattern length": the
\* padding when the while loop ends.
RECURSIVE addContextGrow(_, _, _)
addContextGrow(patch, text, padding) ==
    IF /\ indexOf(text, addContextPattern(patch, text, padding))
            # lastIndexOf(text, addContextPattern(patch, text, padding))
       /\ Len(addContextPattern(patch, text, padding))
            < Match_MaxBits - Patch_Margin - Patch_Margin
    THEN addContextGrow(patch, text, padding + Patch_Margin)
    ELSE padding

\* The prefix and the suffix added, the start points rolled back, the lengths
\* extended.
addContextAround(patch, prefix, suffix) ==
    [diffs |-> (IF prefix # <<>> THEN <<Diff(EQUAL, prefix)>> ELSE <<>>)
                   \o patch.diffs
                   \o (IF suffix # <<>> THEN <<Diff(EQUAL, suffix)>> ELSE <<>>),
     start1 |-> Some(startOrZero(patch.start1) - Len(prefix)),
     start2 |-> Some(patch.start2[1] - Len(prefix)),
     length1 |-> patch.length1 + Len(prefix) + Len(suffix),
     length2 |-> patch.length2 + Len(prefix) + Len(suffix)]

\* "Add one chunk for good luck": padding is the padding after it.
addContextPadded(patch, text, padding) ==
    addContextAround(patch,
        substring(text, patch.start2[1] - padding, patch.start2[1]),
        substring(text, patch.start2[1] + patch.length1,
                  patch.start2[1] + patch.length1 + padding))

\* patch_addContext_(patch, text): the patch afterwards, NULL for the Error of
\* a patch not initialized.
patch_addContext_(patch, text) ==
    IF text = <<>> THEN Some(patch)
    ELSE IF patch.start2 = NULL THEN NULL
    ELSE Some(addContextPadded(patch, text,
                  addContextGrow(patch, text, 0) + Patch_Margin))

\* The for loop of patch_make runs over
\* m = [x, patches, patch, patchDiffLength, char_count1, char_count2,
\*      prepatch_text, postpatch_text].

\* "A new patch starts here."
makeStart(m, diff_type) ==
    IF m.patchDiffLength = 0 /\ diff_type # EQUAL
    THEN [m EXCEPT !.patch.start1 = Some(m.char_count1),
                   !.patch.start2 = Some(m.char_count2)]
    ELSE m

\* patch.diffs[patchDiffLength++] = diffs[x]
makeAdd(m, record) ==
    [m EXCEPT !.patch.diffs = Array(Put(@, m.patchDiffLength + 1, record)),
              !.patchDiffLength = @ + 1]

\* "Time for a new patch."
makePush(m) ==
    [m EXCEPT !.patches = Append(@, patch_addContext_(m.patch, m.prepatch_text)[1]),
              !.patch = Patch,
              !.patchDiffLength = 0,
              !.prepatch_text = m.postpatch_text,
              !.char_count1 = m.char_count2]

\* The switch on diff_type.
makeSwitch(m, diffs, diff_type, diff_text) ==
    CASE diff_type = INSERT ->
            [makeAdd(m, At(diffs, m.x)) EXCEPT
                !.patch.length2 = @ + Len(diff_text),
                !.postpatch_text = substring(@, 0, m.char_count2) \o diff_text
                                       \o substringFrom(@, m.char_count2)]
      [] diff_type = DELETE ->
            [makeAdd(m, At(diffs, m.x)) EXCEPT
                !.patch.length1 = @ + Len(diff_text),
                !.postpatch_text = substring(@, 0, m.char_count2)
                                       \o substringFrom(@, m.char_count2 + Len(diff_text))]
      [] diff_type = EQUAL ->
            IF /\ Len(diff_text) <= 2 * Patch_Margin
               /\ m.patchDiffLength # 0 /\ Len(diffs) # m.x + 1
            THEN [makeAdd(m, At(diffs, m.x)) EXCEPT
                     !.patch.length1 = @ + Len(diff_text),
                     !.patch.length2 = @ + Len(diff_text)]
            ELSE IF Len(diff_text) >= 2 * Patch_Margin /\ m.patchDiffLength # 0
            THEN makePush(m)
            ELSE m

\* "Update the current character count", and x++.
makeCount(m, diff_type, diff_text) ==
    [m EXCEPT !.char_count1 = IF diff_type # INSERT THEN @ + Len(diff_text) ELSE @,
              !.char_count2 = IF diff_type # DELETE THEN @ + Len(diff_text) ELSE @,
              !.x = @ + 1]

\* One round of the loop on the record diffs[x].
makeStep(m, diffs, diff_type, diff_text) ==
    makeCount(makeSwitch(makeStart(m, diff_type), diffs, diff_type, diff_text),
              diff_type, diff_text)

RECURSIVE makeFrom(_, _)
makeFrom(m, diffs) ==
    IF ~(m.x < Len(diffs)) THEN m
    ELSE makeFrom(makeStep(m, diffs, At(diffs, m.x).op, At(diffs, m.x).text), diffs)

\* "Pick up the leftover patch if not empty."
makeLeftover(m) ==
    IF m.patchDiffLength # 0
    THEN Append(m.patches, patch_addContext_(m.patch, m.prepatch_text)[1])
    ELSE m.patches

\* patch_make once text1 and diffs are known.
makePatches(text1, diffs) ==
    IF Len(diffs) = 0 THEN <<>>
    ELSE makeLeftover(makeFrom(
             [x |-> 0, patches |-> <<>>, patch |-> Patch, patchDiffLength |-> 0,
              char_count1 |-> 0, char_count2 |-> 0,
              prepatch_text |-> text1, postpatch_text |-> text1],
             diffs))

\* "Method 1: text1, text2": r is the result of diff_main.
makeCleaned(text1, r) ==
    [patches |-> makePatches(text1,
                     IF Len(r.diffs) > 2
                     THEN diff_cleanupEfficiency(diff_cleanupSemantic(r.diffs))
                     ELSE r.diffs),
     c |-> r.c]

\* patch_make(text1, text2): the patches and the clock afterwards.
patch_make(text1, text2, c) ==
    makeCleaned(text1, diff_main(text1, text2, Some(TRUE), NULL, c))

\* patch_make(diffs), "Method 2: diffs"
patch_makeOfDiffs(diffs) == makePatches(diff_text1(diffs), diffs)


-----------------------------------------------------------------------------
(* Specification SpecMake: patch_make, then patch_addPadding and
   patch_splitMax on the patches it returned *)

\* Most calls of patch_addPadding and patch_splitMax on one list of patches.
MaxMakeOps == 2
\* Most repetitions in the texts of the diffs given to patch_make.
MaxChunks == 9

Digits == <<49, 50, 51, 52, 53, 54, 55, 56, 57, 48>>

\* <<Insert 'X', Equal of four units>> n times over, the equalities distinct.
RECURSIVE ChunkDiffs(_)
ChunkDiffs(n) ==
    IF n = 0 THEN <<>>
    ELSE ChunkDiffs(n - 1)
             \o <<Diff(INSERT, <<88>>),
                  Diff(EQUAL, <<96 + n, 96 + n, 64 + n, 96 + n>>)>>

\* Diffs whose patches are longer than Match_MaxBits: two changes in a text
\* that repeats, a deletion of seventy units between equalities and next to
\* an insertion, many insertions a few units apart.
MakeDiffs ==
    { << Diff(EQUAL, <<97, 98, 99, 100, 101, 102, 103, 104, 105, 106, 32, 44, 32,
                       104, 32, 58, 32>>),
         Diff(DELETE, <<48>>), Diff(INSERT, <<49>>),
         Diff(EQUAL, <<32, 44, 32, 116, 32, 58, 32, 49, 32, 97, 98, 99, 100, 101, 102,
                       103, 104, 105, 106, 32, 44, 32, 104, 32, 58, 32>>),
         Diff(DELETE, <<48>>), Diff(INSERT, <<49>>),
         Diff(EQUAL, <<32, 44, 32, 116, 32, 58, 32, 49, 32, 97, 98, 99, 100, 101, 102,
                       103, 104, 105, 106, 32, 44, 32, 104, 32, 58, 32, 48, 32, 44, 32,
                       116, 32, 58, 32, 49>>) >>,
      << Diff(EQUAL, <<97, 98, 99, 100, 101, 102>>),
         Diff(DELETE, Repeat(Digits, 7)),
         Diff(EQUAL, <<117, 118, 119, 120, 121, 122>>) >>,
      << Diff(DELETE, Repeat(Digits, 7)), Diff(INSERT, <<97, 98, 99>>) >>,
      ChunkDiffs(MaxChunks) }

\* Texts with characters that patch_toText escapes: a space, a percent sign,
\* a line feed, and two non-BMP characters with the same lead surrogate.
MakePairs ==
    { << <<97, 32, 98>>, <<97, 37, 10, 98>> >>,
      << <<55357, 56491>>, <<55357, 56489>> >>,
      << <<97>>, <<97, 55357, 56491>> >> }

\* The operations that leave a list of patches at call.root.
MakeOps == {"patch_make", "patch_addPadding", "patch_splitMax"}

\* patch_make has returned patches, stored at s.at of s.h; text1 and text2
\* are the texts they were made of.
PatchMakeStored(patches, s, text1, text2) ==
    /\ call' = [op |-> "patch_make", root |-> s.at, ops |-> 0,
                text1 |-> text1, text2 |-> text2]
    /\ ret' = patches
    /\ heap' = s.h

PatchMakeReturns(r, text1, text2) ==
    /\ PatchMakeStored(r.patches, storePatches(<<>>, r.patches), text1, text2)
    /\ now' = r.c.now

\* patch_make(text1, text2)
PatchMake ==
    /\ call = Idle
    /\ \E p \in TextPairs \cup MakePairs, c \in Clocks(now) :
          /\ c.next <= MaxNow
          /\ PatchMakeReturns(patch_make(p[1], p[2], c), p[1], p[2])
    /\ UNCHANGED <<Diff_Timeout, Differ_deadline, segmentCodec>>

\* patch_make(diffs)
PatchMakeOfDiffs ==
    /\ call = Idle
    /\ \E diffs \in MakeDiffs :
          PatchMakeStored(patch_makeOfDiffs(diffs),
                          storePatches(<<>>, patch_makeOfDiffs(diffs)),
                          diff_text1(diffs), diff_text2(diffs))
    /\ UNCHANGED <<Diff_Timeout, now, Differ_deadline, segmentCodec>>

\* patch_addPadding(patches) on the patches of the call before.
PatchAddPadding ==
    /\ call.op \in MakeOps /\ call.ops < MaxMakeOps
    /\ heap[call.root].items # <<>>
    /\ heap' = patch_addPadding(heap, call.root)
    /\ call' = [call EXCEPT !.op = "patch_addPadding", !.ops = @ + 1]
    /\ ret' = nullPadding
    /\ UNCHANGED <<Diff_Timeout, now, Differ_deadline, segmentCodec>>

\* patch_splitMax(patches) on the patches of the call before.
PatchSplitMax ==
    /\ call.op \in MakeOps /\ call.ops < MaxMakeOps
    /\ heap' = patch_splitMax(heap, call.root)
    /\ call' = [call EXCEPT !.op = "patch_splitMax", !.ops = @ + 1]
    /\ ret' = <<>>
    /\ UNCHANGED <<Diff_Timeout, now, Differ_deadline, segmentCodec>>

\* patch_apply has returned r, called on the patches of patch_make and on
\* the text they were made of.
PatchApplyToMade(r) ==
    /\ call' = [op |-> "patch_apply", patches |-> patchesAt(heap, call.root),
                root |-> call.root, copy |-> r.copy, text |-> call.text1,
                text2 |-> call.text2, threw |-> r.threw]
    /\ ret' = [text |-> r.text, results |-> r.results]
    /\ heap' = r.h
    /\ now' = r.c.now

\* patch_apply(patches, text1) on the patches patch_make has just returned.
PatchApplyText1 ==
    /\ call.op = "patch_make"
    /\ \E c \in Clocks(now) :
          /\ c.next <= MaxNow
          /\ PatchApplyToMade(patch_apply(heap, call.root, call.text1, c))
    /\ UNCHANGED <<Diff_Timeout, Differ_deadline, segmentCodec>>

\* patch_toText has returned r, or has thrown.
PatchToTextReturns(patches, r) ==
    /\ call' = [op |-> "patch_toText", patches |-> patches, threw |-> r.threw]
    /\ ret' = r.text

\* patch_toText(patches) on the patches patch_make has just returned.
PatchToText ==
    /\ call.op = "patch_make"
    /\ PatchToTextReturns(patchesAt(heap, call.root),
                          patch_toText(patchesAt(heap, call.root)))
    /\ UNCHANGED <<Diff_Timeout, now, Differ_deadline, segmentCodec, heap>>

\* patch_fromText has returned r, or has thrown.
PatchFromTextReturns(textline, r) ==
    /\ call' = [op |-> "patch_fromText", patches |-> call.patches,
                textline |-> textline, threw |-> r.threw]
    /\ ret' = r.patches

\* patch_fromText(text) on the text patch_toText has just returned.
PatchFromMadeText ==
    /\ call.op = "patch_toText" /\ ~call.threw
    /\ PatchFromTextReturns(ret, patch_fromText(ret))
    /\ UNCHANGED <<Diff_Timeout, now, Differ_deadline, segmentCodec, heap>>

NextMake ==
    \/ SetTimeout
    \/ PatchMake
    \/ PatchMakeOfDiffs
    \/ PatchAddPadding
    \/ PatchSplitMax
    \/ PatchApplyText1
    \/ PatchToText
    \/ PatchFromMadeText
    \/ PatchReturn

SpecMake == Init /\ [][NextMake]_vars

\* C26: every patch patch_make has produced, also after patch_addPadding and
\* patch_splitMax have worked on it, has length1 equal to the total length of
\* its Delete and Equal texts and length2 equal to the total length of its
\* Insert and Equal texts.
C26_LengthsOfDiffs ==
    call.op \in MakeOps =>
        \A x \in 1..Len(heap[call.root].items) :
            /\ patchesAt(heap, call.root)[x].length1
                   = Len(diff_text1(patchesAt(heap, call.root)[x].diffs))
            /\ patchesAt(heap, call.root)[x].length2
                   = Len(diff_text2(patchesAt(heap, call.root)[x].diffs))


\* patch_addPadding and then patch_splitMax have worked on the patches of
\* patch_make, which are more than before and have the lengths of their diffs.
C26_Witness ==
    /\ call.op = "patch_splitMax" /\ call.ops = MaxMakeOps
    /\ Len(heap[call.root].items) > 2
    /\ \E x \in 1..Len(heap[call.root].items) :
          /\ patchesAt(heap, call.root)[x].length1 = Match_MaxBits
          /\ patchesAt(heap, call.root)[x].length1
                 = Len(diff_text1(patchesAt(heap, call.root)[x].diffs))
          /\ patchesAt(heap, call.root)[x].length2
                 = Len(diff_text2(patchesAt(heap, call.root)[x].diffs))
          /\ patchesAt(heap, call.root)[x].length2
                 # patchesAt(heap, call.root)[x].length1

\* C27: after patch_splitMax no patch of the list is longer, in its first
\* text, than Match_MaxBits.
C27_NoLongPatch ==
    call.op = "patch_splitMax" =>
        \A x \in 1..Len(heap[call.root].items) :
            patchesAt(heap, call.root)[x].length1 <= Match_MaxBits


\* C27, as the code has it: after patch_splitMax a patch is longer, in its
\* first text, than Match_MaxBits only when it holds a large deletion that
\* passed in one chunk: its diffs begin with an equality and a deletion of
\* more than twice Match_MaxBits units.
C27_LongOnlyByLargeDeletion ==
    call.op = "patch_splitMax" =>
        \A x \in 1..Len(heap[call.root].items) :
            patchesAt(heap, call.root)[x].length1 > Match_MaxBits =>
                /\ Len(patchesAt(heap, call.root)[x].diffs) >= 2
                /\ patchesAt(heap, call.root)[x].diffs[1].op = EQUAL
                /\ patchesAt(heap, call.root)[x].diffs[2].op = DELETE
                /\ Len(patchesAt(heap, call.root)[x].diffs[2].text) > 2 * Match_MaxBits

\* patch_splitMax has split a list into more than two patches, none longer
\* than Match_MaxBits and one as long.
C27_Witness ==
    /\ call.op = "patch_splitMax"
    /\ Len(heap[call.root].items) > 2
    /\ \A x \in 1..Len(heap[call.root].items) :
           patchesAt(heap, call.root)[x].length1 <= Match_MaxBits
    /\ \E x \in 1..Len(heap[call.root].items) :
           patchesAt(heap, call.root)[x].length1 = Match_MaxBits

-----------------------------------------------------------------------------
(* Specification SpecApply: patch_apply on the patches of patch_make, with
   the place each patch is looked for *)

\* Where the loop of patch_apply looks for each patch: the text as patched
\* so far, text1 of the patch and expected_loc, for patch x (1-based) on.
RECURSIVE applyLooks(_, _, _)
applyLooksAt(b, patches, x) ==
    <<[text |-> b.text, text1 |-> diff_text1(patches[x].diffs),
       expected_loc |-> b.expected_loc, delta |-> b.delta]>>
        \o applyLooks(applyPatch(b, patches[x], diff_text1(patches[x].diffs)),
                      patches, x + 1)

applyLooks(a, patches, x) ==
    IF a.threw \/ x > Len(patches) THEN <<>>
    ELSE applyLooksAt([a EXCEPT !.expected_loc = startOrZero(patches[x].start2) + a.delta],
                      patches, x)


\* The looks of patch_apply(patches, text), r being what it returned.
applyLooked(r, text, c) ==
    applyLooks([text |-> nullPadding \o text \o nullPadding, results |-> <<>>,
                delta |-> 0, expected_loc |-> 0, c |-> c, threw |-> FALSE],
               patchesAt(r.h, r.copy), 1)


\* The text the patches are made for: no part of it occurs twice.
LookText ==
    <<48, 49, 50, 51, 52, 53, 54, 55, 56, 57,
      97, 98, 99, 100, 101, 102, 103, 104, 105, 106, 107, 108, 109, 110, 111, 112,
      113, 114, 115, 116, 117, 118, 119, 120, 121, 122,
      65, 66, 67, 68, 69, 70, 71, 72, 73, 74>>

\* Three insertions far enough apart for patch_make to make three patches.
LookDiffsOf(first, second, third) ==
    <<Diff(EQUAL, SubSeq(LookText, 1, 4)), Diff(INSERT, first),
      Diff(EQUAL, SubSeq(LookText, 5, 22)), Diff(INSERT, second),
      Diff(EQUAL, SubSeq(LookText, 23, 40)), Diff(INSERT, third),
      Diff(EQUAL, SubSeq(LookText, 41, 46))>>

\* A deletion of seventy units, which patch_apply matches by its two ends.
LookDeletion ==
    <<Diff(EQUAL, <<97, 98, 99, 100, 101, 102>>), Diff(DELETE, Repeat(Digits, 7)),
      Diff(EQUAL, <<117, 118, 119, 120, 121, 122>>)>>

LookDiffs ==
    {LookDiffsOf(first, <<89>>, third) :
         first \in {<<88>>, <<88, 88>>}, third \in {<<90>>, <<90, 90, 90>>}}
        \cup {LookDeletion}

\* LookText with the units from..to replaced by '@'.
Damaged(text, from, to) ==
    [i \in 1..Len(text) |-> IF i >= from /\ i <= to THEN 64 ELSE text[i]]

\* The texts the patches are applied to: LookText with the context of the
\* first, the second or the third patch damaged, or not, and with one unit
\* of the first context damaged.
LookTexts ==
    {Damaged(Damaged(Damaged(LookText, a[1], a[2]), b[1], b[2]), c[1], c[2]) :
         a \in {<<1, 0>>, <<2, 2>>, <<1, 12>>}, b \in {<<1, 0>>, <<15, 30>>},
         c \in {<<1, 0>>, <<33, 46>>}}

\* patch_apply has returned r: as PatchApplyReturns, with the looks.
PatchApplyLooked(patches, root, text, r, looks) ==
    /\ call' = [op |-> "patch_apply", patches |-> patches, root |-> root,
                copy |-> r.copy, text |-> text, looks |-> looks, threw |-> r.threw]
    /\ ret' = [text |-> r.text, results |-> r.results]
    /\ heap' = r.h
    /\ now' = r.c.now

PatchApplyLooks(patches, s, text, c, r) ==
    PatchApplyLooked(patches, s.at, text, r, applyLooked(r, text, c))

PatchApplyStored(patches, s, text, c) ==
    PatchApplyLooks(patches, s, text, c, patch_apply(s.h, s.at, text, c))

\* patch_apply(patch_make(diffs), text)
PatchApplyMade ==
    /\ call = Idle
    /\ \E diffs \in LookDiffs, text \in LookTexts, c \in Clocks(now) :
          /\ c.next <= MaxNow
          /\ PatchApplyStored(patch_makeOfDiffs(diffs),
                              storePatches(<<>>, patch_makeOfDiffs(diffs)), text, c)
    /\ UNCHANGED <<Diff_Timeout, Differ_deadline, segmentCodec>>

NextApply == SetTimeout \/ PatchApplyMade \/ PatchReturn

SpecApply == Init /\ [][NextApply]_vars

\* text1 occurs in text once, and there at loc.
OnlyAt(text, text1, loc) ==
    indexOf(text, text1) = loc /\ lastIndexOf(text, text1) = loc

\* C28: when patch_apply cannot locate a patch it leaves the text as it is
\* for that patch and subtracts length2 - length1 of the patch from delta,
\* so that each later patch is looked for at the place its context has in
\* the text as patched so far.
C28_Compensates ==
    call.op = "patch_apply" =>
        \A x \in 1..Len(call.looks) :
            ret.results[x] = FALSE =>
                /\ x < Len(call.looks) =>
                       /\ call.looks[x + 1].text = call.looks[x].text
                       /\ call.looks[x + 1].delta
                              = call.looks[x].delta
                                    - (patchesAt(heap, call.copy)[x].length2
                                           - patchesAt(heap, call.copy)[x].length1)
                /\ x = Len(call.looks) =>
                       nullPadding \o ret.text \o nullPadding = call.looks[x].text
                /\ \A z \in (x + 1)..Len(call.looks) :
                       \A loc \in 0..Len(call.looks[z].text) :
                           OnlyAt(call.looks[z].text, call.looks[z].text1, loc)
                               => call.looks[z].expected_loc = loc


-----------------------------------------------------------------------------
(* The #deadline of a Differ, under SpecDiffer *)

\* C29: the #deadline of the Differ is set only while diffWithin runs: it is
\* null before the call and after the call has returned or thrown, so that
\* Differ.diff and Differ.diffCodeUnits, called outside diffWithin, hand null
\* to diff_main, which then computes the deadline from Diff_Timeout.
C29_DeadlineOnlyWithin ==
    Differ_deadline # NULL => (call.op = "diffWithin" /\ call.pc = "loop")

\* diffWithin has set the deadline and has thrown on its second record: the
\* deadline is null again.
C29_Witness ==
    /\ call.op = "diffWithin" /\ call.pc = "done" /\ call.threw
    /\ call.options = [segmenter |-> throwingSegmenter]
    /\ call.diffs = <<Diff(DELETE, <<97, 98>>), Diff(INSERT, <<98, 97>>)>>
    /\ now > 0
    /\ Differ_deadline = NULL


C3_MakeThenApply ==
    (call.op = "patch_apply" /\ "text2" \in DOMAIN call) =>
        /\ ret.text = call.text2
        /\ \A x \in 1..Len(ret.results) : ret.results[x]

\* The patches of a deletion of seventy units, which patch_apply splits or
\* matches by their ends, have been applied to the text they were made of.
C3_Witness ==
    /\ call.op = "patch_apply" /\ "text2" \in DOMAIN call
    /\ Len(call.text) > 2 * Match_MaxBits
    /\ call.text # call.text2
    /\ ret.text = call.text2
    /\ Len(ret.results) >= 1
    /\ \A x \in 1..Len(ret.results) : ret.results[x]


\* C5: for the patches patch_make has returned, patch_toText gives a text
\* that patch_fromText parses into patches equal to them (starts, lengths
\* and diff records), and patch_toText of the parsed patches is that text.
C5_TextRoundTrip ==
    /\ call.op = "patch_toText" => ~call.threw
    /\ call.op = "patch_fromText" =>
           /\ ~call.threw
           /\ ret = call.patches
           /\ patch_toText(ret) = [threw |-> FALSE, text |-> call.textline]


\* C6: patch_apply raises no exception: a patch it cannot locate is reported
\* as false in the results, and every later patch of the list it works on is
\* still attempted, so that the results have one flag for each of them.
C6_ApplyNeverThrows ==
    call.op = "patch_apply" =>
        /\ ~call.threw
        /\ Len(ret.results) = Len(patchesAt(heap, call.copy))

\* The first of three patches was not located, the two after it were.
C6_Witness ==
    /\ call.op = "patch_apply" /\ ~call.threw
    /\ ret.results = <<FALSE, TRUE, TRUE>>
    /\ Len(patchesAt(heap, call.copy)) = 3

====
